---- MODULE Spec2Model ----
\* A model of cleaner-adblock: the Classifier (checkDomain), the Concurrency
\* Scheduler (processDomains) and the List Rewriter (lib/export.js).
\* Strings are sequences of one-character strings, so that the string
\* operations of the source (includes, startsWith, split, replace, substring)
\* are computed character by character.
EXTENDS Integers, Sequences, FiniteSets, TLC

VARIABLES
    ADD_WWW,          \* --add-www flag
    IGNORE_SIMILAR,   \* --ignore-similar flag
    domainObjects,    \* the tasks handed to processDomains
    phase,            \* position of processDomains: "loop", "await", "done", "rejected"
    batchStart,       \* loop variable i of processDomains (0-based)
    results,          \* the results array of processDomains
    pc,               \* per task: position of checkDomain
    vi,               \* per task: variant index (1-based)
    pageClosed,       \* per task: the pageClosed flag of the current attempt
    forceCloseTimer,  \* per task: TRUE while the force-close timer is armed
    pending,          \* per task: what the attempt does once page.close() settles
    ret,              \* per task: the value checkDomain resolved to
    att,              \* per task: the event that ended the latest attempt
    pages,            \* the probing pages open in the browser
    doneOrder,        \* the tasks of the current batch, in completion order
    closeCalls,       \* per task: page.close() calls issued on the current page
    network,          \* the outcomes the page-fetch capability can produce in this run
    closeFailures,    \* page.close() calls that have rejected so far
    forceCloses,      \* force-close timers that have fired so far
    files,            \* the file system: the content of each path
    inputFile,        \* exportCleanedList: the path of the filter list
    exportStep,       \* position of exportCleanedList: "off", "start", "lines", "done"
    domainsToRemove,  \* exportCleanedList: the removal set
    inputLines,       \* exportCleanedList: the lines read
    lineNo,           \* exportCleanedList: the line the loop is at (1-based)
    outputLines,      \* exportCleanedList: the lines kept so far
    removedCount,     \* exportCleanedList: lines removed so far
    modifiedCount,    \* exportCleanedList: lines modified so far
    outputFile,       \* exportCleanedList: the path written
    SIMPLE_DOMAINS,   \* --simple-domains flag
    parseStep,        \* position of main before the probing: "off", "read", "lines", "parsed", "expanded"
    lines,            \* parseDomainsFromFile: the lines of the input file
    lineIndex,        \* parseDomainsFromFile: the line the loop is at (1-based)
    domains,          \* parseDomainsFromFile: the Set, in insertion order; then the sorted array
    utilIn,           \* a call of a utility function: its name and its arguments
    utilOut,          \* the values the utility function has returned so far
    CHECK_DIG,        \* --check-dig flag
    CHECK_DIG_ALWAYS, \* --check-dig-always flag
    mainStep,         \* position of main after the probing: "off", "separate", "dns", "filter", "summary", "reported", "threw"
    deadDomains,      \* main: the dead list
    dnsAnswers        \* what dig answers in this run: per domain, whether an A record is found

\* what a run is given and never changes
config == <<ADD_WWW, IGNORE_SIMILAR, domainObjects, network>>

\* the state of processDomains and of the checkDomain calls
probing == <<config, phase, batchStart, results, pc, vi, pageClosed, forceCloseTimer,
             pending, ret, att, pages, doneOrder, closeCalls, closeFailures, forceCloses>>

\* the state of exportCleanedList
rewriter == <<files, inputFile, exportStep, domainsToRemove, inputLines, lineNo,
              outputLines, removedCount, modifiedCount, outputFile>>

\* the state of parseDomainsFromFile and expandDomainsWithWww
parser == <<SIMPLE_DOMAINS, parseStep, lines, lineIndex, domains>>

\* a call of getBaseDomain or of truncateError
utility == <<utilIn, utilOut>>

\* the state of main once processDomains has returned
reporting == <<CHECK_DIG, CHECK_DIG_ALWAYS, mainStep, deadDomains, dnsAnswers>>

vars == <<probing, rewriter, parser, utility, reporting>>

-----------------------------------------------------------------------------
\* Bounds of the model

MaxTasks == 3
MaxCloseFailures == 1   \* rejections of page.close() in one run
MaxForceCloses == 1     \* force-close timers that fire in one run
MaxLines == 2           \* lines of a filter list
MaxLabels == 4          \* labels of a domain handed to getBaseDomain
MaxMessage == 6         \* length of a short error message
MaxCap == 5             \* a small maxLength of truncateError
MaxDead == 2            \* results handed to the reporting of main

\* Program constants
CONCURRENCY == 2
BodyThreshold == 500
DefaultMaxLength == 120
MinDomainLength == 4

-----------------------------------------------------------------------------
\* String primitives

StartsWith(s, p) == Len(s) >= Len(p) /\ SubSeq(s, 1, Len(p)) = p

EndsWith(s, p) == Len(s) >= Len(p) /\ SubSeq(s, Len(s) - Len(p) + 1, Len(s)) = p

Includes(s, p) == \E k \in 0..(Len(s) - Len(p)) : SubSeq(s, k + 1, k + Len(p)) = p

Drop(s, n) == SubSeq(s, n + 1, Len(s))

HasChar(s, c) == \E k \in DOMAIN s : s[k] = c

FirstIndex(s, c) == CHOOSE k \in DOMAIN s : s[k] = c /\ \A j \in 1..(k - 1) : s[j] # c

RECURSIVE Split(_, _)
Split(s, c) ==
    IF HasChar(s, c)
    THEN <<SubSeq(s, 1, FirstIndex(s, c) - 1)>> \o Split(Drop(s, FirstIndex(s, c)), c)
    ELSE <<s>>

RECURSIVE Join(_, _)
Join(parts, sep) ==
    IF Len(parts) = 0 THEN <<>>
    ELSE IF Len(parts) = 1 THEN parts[1]
    ELSE parts[1] \o sep \o Join(Tail(parts), sep)

LastParts(parts, n) == SubSeq(parts, Len(parts) - n + 1, Len(parts))

UpperChars == <<"A","B","C","D","E","F","G","H","I","J","K","L","M",
                "N","O","P","Q","R","S","T","U","V","W","X","Y","Z">>
LowerChars == <<"a","b","c","d","e","f","g","h","i","j","k","l","m",
                "n","o","p","q","r","s","t","u","v","w","x","y","z">>
DigitChars == <<"0","1","2","3","4","5","6","7","8","9">>

LowerChar(c) ==
    IF \E k \in DOMAIN UpperChars : UpperChars[k] = c
    THEN LowerChars[CHOOSE k \in DOMAIN UpperChars : UpperChars[k] = c]
    ELSE c

ToLowerCase(s) == [k \in DOMAIN s |-> LowerChar(s[k])]

RECURSIVE NatToStr(_)
NatToStr(n) ==
    IF n < 10 THEN <<DigitChars[n + 1]>>
    ELSE NatToStr(n \div 10) \o <<DigitChars[(n % 10) + 1]>>

-----------------------------------------------------------------------------
\* String literals of the source

str ==
    [ https |->
          <<"h","t","t","p","s",":","/","/">>,
      www |->
          <<"w","w","w",".">>,
      aboutBlank |->
          <<"a","b","o","u","t",":","b","l","a","n","k">>,
      edgeSuite |->
          <<"e","r","r","o","r","s",".","e","d","g","e","s","u","i","t","e",".","n","e","t">>,
      HTTP |->
          <<"H","T","T","P"," ">>,
      timeoutUnreachable |->
          <<"t","i","m","e","o","u","t","/","u","n","r","e","a","c","h","a","b","l","e">>,
      ellipsis |->
          <<".",".",".">>,
      unknownError |->
          <<"U","n","k","n","o","w","n"," ","e","r","r","o","r">>,
      allVariantsFailed |->
          <<"A","l","l"," ","v","a","r","i","a","n","t","s"," ","f","a","i","l","e","d">>,
      ERR_CERT |->
          <<"E","R","R","_","C","E","R","T">>,
      SSL |->
          <<"S","S","L">>,
      certificate |->
          <<"c","e","r","t","i","f","i","c","a","t","e">>,
      navigationTimeoutOf |->
          <<"N","a","v","i","g","a","t","i","o","n"," ","t","i","m","e","o","u","t"," ","o","f">>,
      timeout |->
          <<"t","i","m","e","o","u","t">>,
      domainEq |->
          <<"d","o","m","a","i","n","=">>,
      onion |->
          <<".","o","n","i","o","n">>,
      txt |->
          <<".","t","x","t">>,
      cleanedTxt |->
          <<"_","c","l","e","a","n","e","d",".","t","x","t">>,
      bars |->
          <<"|","|">> ]

\* the substrings of an error message that mark a dead connection
deadPatterns ==
    { str.timeout,
      <<"E","R","R","_","N","A","M","E","_","N","O","T","_","R","E","S","O","L","V","E","D">>,
      <<"E","R","R","_","C","O","N","N","E","C","T","I","O","N","_","R","E","F","U","S","E","D">>,
      <<"E","R","R","_","C","O","N","N","E","C","T","I","O","N","_","T","I","M","E","D","_","O","U","T">>,
      <<"E","R","R","_","C","O","N","N","E","C","T","I","O","N","_","R","E","S","E","T">>,
      <<"E","R","R","_","A","D","D","R","E","S","S","_","U","N","R","E","A","C","H","A","B","L","E">> }

\* Phrases looked for in the page body (the body is modelled by its length
\* and by the set of these phrases it contains)
phrase ==
    [ accessDenied |-> "Access Denied",
      noPermission |-> "You don't have permission to access",
      reference |-> "Reference #",
      edgeSuite |-> "errors.edgesuite.net" ]

-----------------------------------------------------------------------------
\* Domain utilities (cleaner-adblock.js)

\* domain.replace(/^www\./, '')
StripWww(domain) == IF StartsWith(domain, str.www) THEN Drop(domain, Len(str.www)) ELSE domain

\* the built-in fallback table of cleaner-adblock.js
multiTLDs ==
    { <<"c","o",".","u","k">>, <<"c","o","m",".","n","z">>, <<"c","o","m",".","a","u">>,
      <<"c","o",".","z","a">>, <<"c","o","m",".","b","r">> }

BaseDomainOf(domain, tlds) ==
    LET d == StripWww(domain)
        parts == Split(d, ".")
        n == Len(parts)
    IN  IF n <= 2 THEN d
        ELSE IF n > 3 /\ Join(LastParts(parts, 3), <<".">>) \in tlds
             THEN Join(LastParts(parts, 4), <<".">>)
        ELSE IF n > 2 /\ Join(LastParts(parts, 2), <<".">>) \in tlds
             THEN Join(LastParts(parts, 3), <<".">>)
        ELSE Join(LastParts(parts, 2), <<".">>)

getBaseDomain(domain) == BaseDomainOf(domain, multiTLDs)

\* the feature flag not consulted
isSimilarDomainRedirect_noFlag(originalDomain, finalDomain, ignoreSimilar) ==
    getBaseDomain(originalDomain) = getBaseDomain(finalDomain)

isSimilarDomainRedirect(originalDomain, finalDomain, ignoreSimilar) ==
    IF ~ignoreSimilar THEN FALSE
    ELSE getBaseDomain(originalDomain) = getBaseDomain(finalDomain)

Max(a, b) == IF a >= b THEN a ELSE b

truncateError(message, maxLength) ==
    LET msg == IF Len(message) = 0 THEN str.unknownError ELSE message
        safeMaxLength == IF maxLength <= 0 THEN DefaultMaxLength ELSE maxLength
    IN  IF Len(msg) <= safeMaxLength THEN msg
        ELSE SubSeq(msg, 1, Max(0, safeMaxLength - 3)) \o str.ellipsis

\* Number of dots of a domain
DotCount(domain) == Cardinality({k \in DOMAIN domain : domain[k] = "."})

isBareDomain(domain) == DotCount(StripWww(domain)) = 1

\* the www variant put first
expandDomain_wwwFirst(domain, addWww) ==
    IF ~addWww THEN [original |-> domain, variants |-> <<domain>>]
    ELSE IF StartsWith(domain, str.www) THEN [original |-> domain, variants |-> <<domain>>]
    ELSE IF ~isBareDomain(domain) THEN [original |-> domain, variants |-> <<domain>>]
    ELSE [original |-> domain, variants |-> <<str.www \o domain, domain>>]

expandDomain(domain, addWww) ==
    IF ~addWww THEN [original |-> domain, variants |-> <<domain>>]
    ELSE IF StartsWith(domain, str.www) THEN [original |-> domain, variants |-> <<domain>>]
    ELSE IF ~isBareDomain(domain) THEN [original |-> domain, variants |-> <<domain>>]
    ELSE [original |-> domain, variants |-> <<domain, str.www \o domain>>]

expandDomainsWithWww(domainList, addWww) ==
    [k \in DOMAIN domainList |-> expandDomain(domainList[k], addWww)]

-----------------------------------------------------------------------------
\* What the page-fetch capability can do (the inputs of checkDomain)

NoStatus == -1   \* statusCode === null

\* messages of the errors that page.goto and page.close() raise
errorMessages ==
    [ certInvalid |->
          <<"n","e","t",":",":","E","R","R","_","C","E","R","T","_","A","U","T","H","O","R","I","T","Y","_","I","N","V","A","L","I","D">>,
      sslTimeout |->
          <<"S","S","L"," ","h","a","n","d","s","h","a","k","e"," ","t","i","m","e","o","u","t">>,
      navTimeout |->
          <<"N","a","v","i","g","a","t","i","o","n"," ","t","i","m","e","o","u","t"," ","o","f"," ","2","5","0","0","0"," ","m","s"," ","e","x","c","e","e","d","e","d">>,
      nameNotResolved |->
          <<"n","e","t",":",":","E","R","R","_","N","A","M","E","_","N","O","T","_","R","E","S","O","L","V","E","D">>,
      socketTimeout |->
          <<"s","o","c","k","e","t"," ","t","i","m","e","o","u","t">>,
      aborted |->
          <<"n","e","t",":",":","E","R","R","_","A","B","O","R","T","E","D">>,
      targetClosed |->
          <<"T","a","r","g","e","t"," ","c","l","o","s","e","d">>,
      protocolTimeout |->
          <<"T","a","r","g","e","t",".","c","l","o","s","e","T","a","r","g","e","t"," ","t","i","m","e","d"," ","o","u","t","."," ","I","n","c","r","e","a","s","e"," ","t","h","e"," ","'","p","r","o","t","o","c","o","l","T","i","m","e","o","u","t","'"," ","s","e","t","t","i","n","g"," ","i","n"," ","l","a","u","n","c","h","/","c","o","n","n","e","c","t"," ","c","a","l","l","s"," ","f","o","r"," ","a"," ","h","i","g","h","e","r"," ","t","i","m","e","o","u","t"," ","i","f"," ","n","e","e","d","e","d",".">> ]


dom ==
    [ X |-> <<"x",".","c","o">>,
      Y |-> <<"y",".","c","o">>,
      A |-> <<"a",".","c","o">>,
      subY |-> <<"x",".","y",".","c","o">>,
      subX |-> <<"s",".","x",".","c","o">>,
      new |-> <<"n",".","c","o">> ]

\* Page bodies
\* a body of a given length that holds the given phrases
Body(length, phrases) == [length |-> length, phrases |-> phrases]

\* a short body that holds the denial phrase
DeniedBody(extra) == Body(200, {phrase.accessDenied} \cup extra)

\* A shape is an outcome of the fetch before it is tied to a variant:
\* target names the final URL relative to the requested host.
RespShape(status, target, body) ==
    [kind |-> "response", statusCode |-> status, target |-> target, pageContent |-> body]
ErrShape(message, gone) ==
    [kind |-> "error", message |-> message, pageGone |-> gone]

\* everything the fetch of a variant can do: plain responses, 403 responses
\* with the bodies the 403 rules tell apart, and errors
FullNetwork ==
    { RespShape(200, tg, Body(BodyThreshold + 1, {})) :
        tg \in {"same", "www", "similar", "other"} }
    \cup { RespShape(404, tg, Body(0, {})) : tg \in {"same", "other"} }
    \cup { RespShape(400, "same", Body(0, {})), RespShape(NoStatus, "blank", Body(0, {})) }
    \cup { RespShape(403, tg, Body(BodyThreshold + 1, {})) : tg \in {"same", "other", "blank"} }
    \cup { RespShape(403, "same", b) :
             b \in { Body(BodyThreshold, {}), Body(0, {}), Body(200, {phrase.edgeSuite}),
                     DeniedBody({}), DeniedBody({phrase.reference}), DeniedBody({phrase.noPermission}),
                     DeniedBody({phrase.edgeSuite}) } }
    \cup { RespShape(403, "edge", DeniedBody({})), RespShape(403, "edge", Body(0, {})) }
    \cup { ErrShape(errorMessages[m], FALSE) :
             m \in {"certInvalid", "sslTimeout", "navTimeout", "nameNotResolved",
                    "socketTimeout", "aborted"} }
    \cup { ErrShape(errorMessages.targetClosed, TRUE) }

\* the part of it that the runs of several tasks draw from
BasicNetwork ==
    { RespShape(200, "same", Body(BodyThreshold + 1, {})),
      RespShape(200, "other", Body(BodyThreshold + 1, {})),
      RespShape(404, "same", Body(0, {})),
      ErrShape(errorMessages.nameNotResolved, FALSE),
      ErrShape(errorMessages.targetClosed, TRUE) }

\* the host of the "similar" target: a sibling under the same base domain
SimilarHost(variant) ==
    LET d == StripWww(variant)
    IN  IF DotCount(d) >= 2 THEN Drop(d, FirstIndex(d, ".")) ELSE <<"m", ".">> \o d

TargetUrl(variant, target) ==
    CASE target = "same"    -> str.https \o variant \o <<"/">>
      [] target = "www"     -> str.https \o (IF StartsWith(variant, str.www)
                                          THEN StripWww(variant)
                                          ELSE str.www \o variant) \o <<"/">>
      [] target = "similar" -> str.https \o SimilarHost(variant) \o <<"/">>
      [] target = "other"   -> str.https \o dom.new \o <<"/", "p">>
      [] target = "edge"    -> str.https \o str.edgeSuite \o <<"/">>
      [] target = "blank"   -> str.aboutBlank

\* the outcome of fetching a variant
Outcome(shape, variant) ==
    IF shape.kind = "response"
    THEN [kind |-> "response", statusCode |-> shape.statusCode,
          finalUrl |-> TargetUrl(variant, shape.target),
          pageContent |-> shape.pageContent]
    ELSE [kind |-> "error", message |-> shape.message, pageGone |-> shape.pageGone]

NoAttempt == [kind |-> "none"]

-----------------------------------------------------------------------------
\* checkDomain: the decision taken on the outcome of one attempt

ActiveResult == [type |-> "null", data |-> <<>>]

Return(result) == [exit |-> "return", result |-> result]
Continue == [exit |-> "continue", result |-> ActiveResult]

\* new URL(urlStr).hostname.replace(/^www\./, '')
\* the leading www. kept
extractDomain_keepWww(urlStr) ==
    IF StartsWith(urlStr, str.https)
    THEN LET rest == Drop(urlStr, Len(str.https))
             host == IF HasChar(rest, "/") THEN SubSeq(rest, 1, FirstIndex(rest, "/") - 1)
                     ELSE rest
         IN  ToLowerCase(host)
    ELSE IF StartsWith(urlStr, <<"a","b","o","u","t",":">>) THEN <<>>
    ELSE urlStr

extractDomain(urlStr) ==
    IF StartsWith(urlStr, str.https)
    THEN LET rest == Drop(urlStr, Len(str.https))
             host == IF HasChar(rest, "/") THEN SubSeq(rest, 1, FirstIndex(rest, "/") - 1)
                     ELSE rest
         IN  StripWww(ToLowerCase(host))
    ELSE IF StartsWith(urlStr, <<"a","b","o","u","t",":">>) THEN <<>>
    ELSE urlStr

\* the signature without its requirement of the denial phrase
isAntiBotMessage_noPhrase(pageContent, finalUrl) ==
    \/ phrase.noPermission \in pageContent.phrases
    \/ phrase.reference \in pageContent.phrases
    \/ phrase.edgeSuite \in pageContent.phrases
    \/ Includes(finalUrl, str.edgeSuite)

isAntiBotMessage(pageContent, finalUrl) ==
    /\ phrase.accessDenied \in pageContent.phrases
    /\ \/ phrase.noPermission \in pageContent.phrases
       \/ phrase.reference \in pageContent.phrases
       \/ phrase.edgeSuite \in pageContent.phrases
       \/ Includes(finalUrl, str.edgeSuite)

pageActuallyLoaded(pageContent, finalUrl) ==
    /\ pageContent.length > BodyThreshold
    /\ ~Includes(finalUrl, str.aboutBlank)

\* a strict comparison: statusCode > 400
isTrulyDead_strict(statusCode) ==
    (statusCode > 400 /\ statusCode # 403) \/ statusCode = NoStatus

isTrulyDead(statusCode) ==
    (statusCode >= 400 /\ statusCode # 403) \/ statusCode = NoStatus

\* a loop bound that is off by one: i === variants.length
isLastVariant_offByOne(i, variants) == i = Len(variants) + 1

\* no variant taken for the last one
isLastVariant_never(i, variants) == FALSE

isLastVariant(i, variants) == i = Len(variants)

httpReason(statusCode) ==
    str.HTTP \o (IF statusCode = NoStatus THEN str.timeoutUnreachable ELSE NatToStr(statusCode))

DeadHttp(domain, statusCode) ==
    [type |-> "dead",
     data |-> [domain |-> domain, statusCode |-> statusCode, reason |-> httpReason(statusCode)]]

RedirectResult(domain, finalDomain, url, finalUrl, statusCode) ==
    [type |-> "redirect",
     data |-> [domain |-> domain, finalDomain |-> finalDomain, originalUrl |-> url,
               finalUrl |-> finalUrl, statusCode |-> statusCode]]

\* lines 627-752: the try block after page.goto and page.content returned
onResponse(domain, variant, last, r, ignoreSimilar) ==
    LET url == str.https \o variant
        statusCode == r.statusCode
        finalUrl == r.finalUrl
        is403 == statusCode = 403
        trulyDead == isTrulyDead(statusCode)
        isDead == trulyDead \/ (is403 /\ last)
        originalDomain == extractDomain(url)
        finalDomain == extractDomain(finalUrl)
        isRedirecting == originalDomain # finalDomain /\ ~isDead
        isSimilarRedirect ==
            isRedirecting /\ isSimilarDomainRedirect(originalDomain, finalDomain, ignoreSimilar)
    IN  IF is403 /\ pageActuallyLoaded(r.pageContent, finalUrl) THEN Return(ActiveResult)
        ELSE IF is403 /\ isAntiBotMessage(r.pageContent, finalUrl) THEN Return(ActiveResult)
        ELSE IF is403 /\ ~last THEN Continue
        ELSE IF trulyDead /\ ~last THEN Continue
        ELSE IF isDead THEN Return(DeadHttp(domain, statusCode))
        ELSE IF isRedirecting /\ ~isSimilarRedirect
             THEN Return(RedirectResult(domain, finalDomain, url, finalUrl, statusCode))
        ELSE Return(ActiveResult)

isCertError(message) ==
    Includes(message, str.ERR_CERT) \/ Includes(message, str.SSL) \/ Includes(message, str.certificate)

isNavTimeout(message) == Includes(message, str.navigationTimeoutOf)

\* the navigation timeout not told apart from the other timeouts
isDeadError_navTimeoutDead(message) ==
    /\ ~isCertError(message)
    /\ \E pattern \in deadPatterns : Includes(message, pattern)

isDeadError(message) ==
    /\ ~isCertError(message)
    /\ ~isNavTimeout(message)
    /\ \E pattern \in deadPatterns : Includes(message, pattern)

DeadError(domain, message) ==
    [type |-> "dead",
     data |-> [domain |-> domain, reason |-> truncateError(message, DefaultMaxLength)]]

\* lines 754-820: the catch block, after the page has been dealt with
\* a dead error finalizes at once, without the continue of lines 796-800
onError_noContinue(domain, last, message) ==
    IF isDeadError(message) THEN Return(DeadError(domain, message))
    ELSE Return(ActiveResult)

\* every error on a variant that is not the last goes on to the next variant
onError_retryEveryError(domain, last, message) ==
    IF ~last THEN Continue
    ELSE IF isDeadError(message) THEN Return(DeadError(domain, message))
    ELSE Return(ActiveResult)

onError(domain, last, message) ==
    IF isDeadError(message) /\ ~last THEN Continue
    ELSE IF isDeadError(message) THEN Return(DeadError(domain, message))
    ELSE Return(ActiveResult)

\* lines 823-827
FallbackResult(domain) ==
    [type |-> "dead",
     data |-> [domain |-> domain, statusCode |-> NoStatus, reason |-> str.allVariantsFailed]]

Rejected == [type |-> "rejected", data |-> <<>>]
Unsettled == [type |-> "unsettled", data |-> <<>>]

-----------------------------------------------------------------------------
\* The state machine of processDomains and of the checkDomain calls it awaits

Tasks == DOMAIN domainObjects

\* batch = domainObjects.slice(i, i + CONCURRENCY)
\* a slice without its end: domainObjects.slice(i)
Batch_noEnd == {t \in Tasks : batchStart < t}

Batch == {t \in Tasks : batchStart < t /\ t <= batchStart + CONCURRENCY}

Variant(t) == domainObjects[t].variants[vi[t]]

PageOf(t) == {p \in pages : p.task = t /\ p.v = vi[t]}

\* the sorted, duplicate-free output of parseDomainsFromFile
AllDomains == <<dom.A, dom.subX, dom.X, dom.subY, dom.Y>>

\* the parts of the program that are not running
Off(parts) ==
    /\ IF "files" \in parts
       THEN /\ files = <<>>
            /\ inputFile = <<>>
       ELSE TRUE
    /\ IF "rewriter" \in parts
       THEN /\ exportStep = "off"
            /\ domainsToRemove = {}
            /\ inputLines = <<>>
            /\ lineNo = 0
            /\ outputLines = <<>>
            /\ removedCount = 0
            /\ modifiedCount = 0
            /\ outputFile = <<>>
       ELSE TRUE
    /\ IF "parser" \in parts
       THEN /\ SIMPLE_DOMAINS = FALSE
            /\ parseStep = "off"
            /\ lines = <<>>
            /\ lineIndex = 0
            /\ domains = <<>>
       ELSE TRUE
    /\ IF "utility" \in parts
       THEN /\ utilIn = [fn |-> "none"]
            /\ utilOut = <<>>
       ELSE TRUE
    /\ IF "reporting" \in parts
       THEN /\ CHECK_DIG = FALSE
            /\ CHECK_DIG_ALWAYS = FALSE
            /\ mainStep = "off"
            /\ deadDomains = <<>>
            /\ dnsAnswers = <<>>
       ELSE TRUE

InitTasks(domainList, addWww, ignoreSimilar, net) ==
    /\ ADD_WWW = addWww
    /\ IGNORE_SIMILAR = ignoreSimilar
    /\ network = net
    /\ domainObjects = expandDomainsWithWww(domainList, addWww)
    /\ phase = "loop"
    /\ batchStart = 0
    /\ results = <<>>
    /\ pc = [t \in DOMAIN domainList |-> "idle"]
    /\ vi = [t \in DOMAIN domainList |-> 1]
    /\ pageClosed = [t \in DOMAIN domainList |-> FALSE]
    /\ forceCloseTimer = [t \in DOMAIN domainList |-> FALSE]
    /\ pending = [t \in DOMAIN domainList |-> Continue]
    /\ ret = [t \in DOMAIN domainList |-> Unsettled]
    /\ att = [t \in DOMAIN domainList |-> NoAttempt]
    /\ pages = {}
    /\ doneOrder = <<>>
    /\ closeCalls = [t \in DOMAIN domainList |-> 0]
    /\ closeFailures = 0
    /\ forceCloses = 0

\* processDomains over several tasks
Init ==
    \E n \in 2..MaxTasks, addWww \in BOOLEAN :
        /\ InitTasks(SubSeq(AllDomains, 1, n), addWww, FALSE, BasicNetwork)
        /\ Off({"files", "rewriter", "parser", "utility", "reporting"})

\* lines 837-848: a batch is sliced off and checkDomain is called on each of
\* its tasks; each call runs up to its first await (browser.newPage)
StartBatch ==
    /\ phase = "loop"
    /\ batchStart < Len(domainObjects)
    /\ phase' = "await"
    /\ pc' = [t \in Tasks |-> IF t \in Batch THEN "newPage" ELSE pc[t]]
    /\ vi' = [t \in Tasks |-> IF t \in Batch THEN 1 ELSE vi[t]]
    /\ doneOrder' = <<>>
    /\ UNCHANGED <<parser, utility, reporting, rewriter, config, batchStart, results, pageClosed, forceCloseTimer, pending,
                   ret, att, pages, closeCalls, closeFailures, forceCloses>>

\* an await outside the try block rejects: checkDomain rejects, and with it
\* Promise.all and processDomains
Reject(t) ==
    /\ ret' = [ret EXCEPT ![t] = Rejected]
    /\ pc' = [pc EXCEPT ![t] = "done"]
    /\ phase' = "rejected"
    /\ doneOrder' = Append(doneOrder, t)

\* the attempt is over: return the result, or go round the variant loop
Complete(t, d) ==
    IF d.exit = "return"
    THEN /\ ret' = [ret EXCEPT ![t] = d.result]
         /\ pc' = [pc EXCEPT ![t] = "done"]
         /\ doneOrder' = Append(doneOrder, t)
         /\ UNCHANGED vi
    ELSE IF vi[t] < Len(domainObjects[t].variants)
    THEN /\ vi' = [vi EXCEPT ![t] = vi[t] + 1]
         /\ pc' = [pc EXCEPT ![t] = "newPage"]
         /\ UNCHANGED <<ret, doneOrder>>
    ELSE /\ ret' = [ret EXCEPT ![t] = FallbackResult(domainObjects[t].original)]
         /\ pc' = [pc EXCEPT ![t] = "done"]
         /\ doneOrder' = Append(doneOrder, t)
         /\ UNCHANGED vi

\* line 543: await browser.newPage() resolves
NewPage(t) ==
    /\ phase = "await" /\ pc[t] = "newPage"
    /\ pages' = pages \cup {[task |-> t, v |-> vi[t], blank |-> TRUE]}
    /\ pc' = [pc EXCEPT ![t] = "setup"]
    /\ closeCalls' = [closeCalls EXCEPT ![t] = 0]
    /\ pageClosed' = [pageClosed EXCEPT ![t] = FALSE]
    /\ UNCHANGED <<parser, utility, reporting, rewriter, config, phase, batchStart, results, vi, forceCloseTimer, pending,
                   ret, att, doneOrder, closeFailures, forceCloses>>

\* line 543: await browser.newPage() rejects
NewPageFails(t) ==
    /\ phase = "await" /\ pc[t] = "newPage"
    /\ Reject(t)
    /\ UNCHANGED <<parser, utility, reporting, rewriter, config, batchStart, results, vi, pageClosed, forceCloseTimer,
                   pending,
                   att, pages, closeCalls, closeFailures, forceCloses>>

\* lines 547-578: setUserAgent (and setRequestInterception) resolve, the
\* force-close timer is armed and page.goto is called
SetupPage(t) ==
    /\ phase = "await" /\ pc[t] = "setup"
    /\ forceCloseTimer' = [forceCloseTimer EXCEPT ![t] = TRUE]
    /\ pc' = [pc EXCEPT ![t] = "goto"]
    /\ UNCHANGED <<parser, utility, reporting, rewriter, config, phase, batchStart, results, vi, pageClosed, pending, ret,
                   att,
                   pages, doneOrder, closeCalls, closeFailures, forceCloses>>

\* lines 547-552: setUserAgent or setRequestInterception rejects
SetupPageFails(t) ==
    /\ phase = "await" /\ pc[t] = "setup"
    /\ Reject(t)
    /\ UNCHANGED <<parser, utility, reporting, rewriter, config, batchStart, results, vi, pageClosed, forceCloseTimer,
                   pending,
                   att, pages, closeCalls, closeFailures, forceCloses>>

\* lines 566-576: the force-close timer fires while the attempt awaits the
\* fetch; closes tells whether its page.close() resolves
ForceClose(t, closes) ==
    /\ phase = "await" /\ pc[t] = "goto" /\ forceCloseTimer[t]
    /\ forceCloses < MaxForceCloses
    /\ closes \/ closeFailures < MaxCloseFailures
    /\ forceCloses' = forceCloses + 1
    /\ forceCloseTimer' = [forceCloseTimer EXCEPT ![t] = FALSE]
    /\ IF ~pageClosed[t]
       THEN /\ pageClosed' = [pageClosed EXCEPT ![t] = TRUE]
            /\ closeCalls' = [closeCalls EXCEPT ![t] = closeCalls[t] + 1]
            /\ pages' = IF closes THEN pages \ PageOf(t) ELSE pages
            /\ closeFailures' = IF closes THEN closeFailures ELSE closeFailures + 1
       ELSE UNCHANGED <<pageClosed, closeCalls, pages, closeFailures>>
    /\ UNCHANGED <<parser, utility, reporting, rewriter, config, phase, batchStart, results, pc, vi, pending, ret, att,
                   doneOrder>>

\* lines 658, 669, 680, 691, 745 and 781: clearTimeout(forceCloseTimer)
\* the timer left armed when the attempt ends
clearTimeout_missing(timers, t) == timers

clearTimeout(timers, t) == [timers EXCEPT ![t] = FALSE]

\* the page after the fetch: it shows the final URL, or is gone
PagesAfter(t, r) ==
    IF r.kind = "response"
    THEN {IF p \in PageOf(t) THEN [p EXCEPT !.blank = Includes(r.finalUrl, str.aboutBlank)] ELSE p
            : p \in pages}
    ELSE IF r.pageGone THEN pages \ PageOf(t)
    ELSE pages

\* lines 617-752 and 754-793: page.goto and page.content settle; the attempt
\* is decided, the timer is cleared and, unless the page was force-closed,
\* page.close() is called.  Once the page is gone the fetch can only raise.
Navigate(t, shape) ==
    /\ phase = "await" /\ pc[t] = "goto"
    /\ PageOf(t) = {} => (shape.kind = "error" /\ shape.pageGone)
    /\ LET r == Outcome(shape, Variant(t))
           last == isLastVariant(vi[t], domainObjects[t].variants)
           d == IF r.kind = "response"
                THEN onResponse(domainObjects[t].original, Variant(t), last, r, IGNORE_SIMILAR)
                ELSE onError(domainObjects[t].original, last, r.message)
           mustClose == IF r.kind = "response" THEN ~pageClosed[t]
                        ELSE ~pageClosed[t] /\ PageOf(t) # {} /\ ~r.pageGone
       IN  /\ att' = [att EXCEPT ![t] = r]
           /\ pages' = PagesAfter(t, r)
           /\ forceCloseTimer' = clearTimeout(forceCloseTimer, t)
           /\ IF mustClose
              THEN /\ pageClosed' = [pageClosed EXCEPT ![t] = TRUE]
                   /\ closeCalls' = [closeCalls EXCEPT ![t] = closeCalls[t] + 1]
                   /\ pending' = [pending EXCEPT ![t] = d]
                   /\ pc' = [pc EXCEPT ![t] =
                               IF r.kind = "response" THEN "closing" ELSE "closingCatch"]
                   /\ UNCHANGED <<ret, vi, doneOrder>>
              ELSE /\ Complete(t, d)
                   /\ UNCHANGED <<pageClosed, closeCalls, pending>>
    /\ UNCHANGED <<parser, utility, reporting, rewriter, config, phase, batchStart, results, closeFailures, forceCloses>>

\* lines 661, 672, 683, 694, 748: await page.close() resolves on the try path
ClosePage(t) ==
    /\ phase = "await" /\ pc[t] = "closing"
    /\ pages' = pages \ PageOf(t)
    /\ pending' = [pending EXCEPT ![t] = Continue]
    /\ Complete(t, pending[t])
    /\ UNCHANGED <<parser, utility, reporting, rewriter, config, phase, batchStart, results, pageClosed, forceCloseTimer, att,
                   closeCalls, closeFailures, forceCloses>>

\* the same await rejects: control enters the catch block with pageClosed
\* already set, so the page is not closed again and the error is classified
ClosePageFails(t) ==
    /\ phase = "await" /\ pc[t] = "closing"
    /\ closeFailures < MaxCloseFailures
    /\ closeFailures' = closeFailures + 1
    /\ att' = [att EXCEPT ![t] =
                 Outcome(ErrShape(errorMessages.protocolTimeout, FALSE), Variant(t))]
    /\ pending' = [pending EXCEPT ![t] = Continue]
    /\ Complete(t, onError(domainObjects[t].original,
                           isLastVariant(vi[t], domainObjects[t].variants),
                           errorMessages.protocolTimeout))
    /\ UNCHANGED <<parser, utility, reporting, rewriter, config, phase, batchStart, results, pageClosed, forceCloseTimer,
                   pages,
                   closeCalls, forceCloses>>

\* line 786: await page.close() resolves in the catch block
CloseInCatch(t) ==
    /\ phase = "await" /\ pc[t] = "closingCatch"
    /\ pages' = pages \ PageOf(t)
    /\ pending' = [pending EXCEPT ![t] = Continue]
    /\ Complete(t, pending[t])
    /\ UNCHANGED <<parser, utility, reporting, rewriter, config, phase, batchStart, results, pageClosed, forceCloseTimer, att,
                   closeCalls, closeFailures, forceCloses>>

\* lines 788-792: it rejects; page.close() is called once more, unawaited,
\* and closes tells whether that second call closes the page
CloseInCatchFails(t, closes) ==
    /\ phase = "await" /\ pc[t] = "closingCatch"
    /\ closeFailures < MaxCloseFailures
    /\ closeFailures' = closeFailures + 1
    /\ closeCalls' = [closeCalls EXCEPT ![t] = closeCalls[t] + 1]
    /\ pages' = IF closes THEN pages \ PageOf(t) ELSE pages
    /\ pending' = [pending EXCEPT ![t] = Continue]
    /\ Complete(t, pending[t])
    /\ UNCHANGED <<parser, utility, reporting, rewriter, config, phase, batchStart, results, pageClosed, forceCloseTimer, att,
                   forceCloses>>

\* r !== null && r.type !== null
retained(r) == r.type # "null"

\* what Promise.all resolves to: the results of the batch in task order
\* (order is the order in which the tasks of the batch completed)
\* results pushed as the tasks complete instead of by position
batchResults_byCompletion(start, settled, order) ==
    [k \in 1..Len(order) |-> settled[order[k]]]

batchResults(start, settled, order) ==
    [k \in 1..Len(order) |-> settled[start + k]]

\* the pages the sweep tries to close: page.url() !== 'about:blank'
lingering(open) == IF Cardinality(open) + 1 > 1 THEN {p \in open : ~p.blank} ELSE {}

\* lines 844-873: Promise.all resolves, the non-Active results are kept, and
\* the pages still open are swept; stuck are the pages whose close rejects
FinishBatch(stuck) ==
    /\ phase = "await"
    /\ \A t \in Batch : pc[t] = "done"
    /\ results' = results \o SelectSeq(batchResults(batchStart, ret, doneOrder), retained)
    /\ stuck \subseteq lingering(pages)
    /\ closeFailures + Cardinality(stuck) <= MaxCloseFailures
    /\ closeFailures' = closeFailures + Cardinality(stuck)
    /\ pages' = pages \ (lingering(pages) \ stuck)
    /\ batchStart' = batchStart + CONCURRENCY
    /\ phase' = IF batchStart + CONCURRENCY < Len(domainObjects) THEN "loop" ELSE "done"
    /\ att' = [t \in Tasks |-> IF t \in Batch THEN NoAttempt ELSE att[t]]
    /\ vi' = [t \in Tasks |-> IF t \in Batch THEN 1 ELSE vi[t]]
    /\ pageClosed' = [t \in Tasks |-> IF t \in Batch THEN FALSE ELSE pageClosed[t]]
    /\ closeCalls' = [t \in Tasks |-> IF t \in Batch THEN 0 ELSE closeCalls[t]]
    /\ UNCHANGED <<parser, utility, reporting, rewriter, config, pc, forceCloseTimer, pending, ret, doneOrder, forceCloses>>

Next ==
    \/ StartBatch
    \/ \E t \in Tasks : NewPage(t)
    \/ \E t \in Tasks : NewPageFails(t)
    \/ \E t \in Tasks : SetupPage(t)
    \/ \E t \in Tasks : SetupPageFails(t)
    \/ \E t \in Tasks, closes \in BOOLEAN : ForceClose(t, closes)
    \/ \E t \in Tasks, shape \in network : Navigate(t, shape)
    \/ \E t \in Tasks : ClosePage(t)
    \/ \E t \in Tasks : ClosePageFails(t)
    \/ \E t \in Tasks : CloseInCatch(t)
    \/ \E t \in Tasks, closes \in BOOLEAN : CloseInCatchFails(t, closes)
    \/ \E stuck \in SUBSET pages : FinishBatch(stuck)

Spec == Init /\ [][Next]_vars

\* checkDomain on one task, against everything the fetch can do
InitTask ==
    \E d \in {dom.subX, dom.X}, addWww \in BOOLEAN, ignoreSimilar \in BOOLEAN :
        /\ InitTasks(<<d>>, addWww, ignoreSimilar, FullNetwork)
        /\ Off({"files", "rewriter", "parser", "utility", "reporting"})

SpecTask == InitTask /\ [][Next]_vars

-----------------------------------------------------------------------------
\* Regular expressions of the Rule Parser and of the List Rewriter, computed on
\* the characters of a line

Range(s) == {s[k] : k \in DOMAIN s}

MinOf(S) == CHOOSE x \in S : \A y \in S : x <= y

MaxOf(S) == CHOOSE x \in S : \A y \in S : x >= y

\* \s, on the characters a line can hold
WhiteSpace == {" ", "\t"}

\* String.prototype.trim
Trim(s) ==
    LET keep == {k \in DOMAIN s : s[k] \notin WhiteSpace}
    IN  IF keep = {} THEN <<>> ELSE SubSeq(s, MinOf(keep), MaxOf(keep))

\* the length of the longest run of characters of a class that starts at from
Span(s, from, class) ==
    LET stops == {k \in from..Len(s) : s[k] \notin class}
    IN  IF stops = {} THEN Max(0, Len(s) - from + 1) ELSE MinOf(stops) - from

\* the same for a negated class [^...]
SpanNot(s, from, excluded) ==
    LET stops == {k \in from..Len(s) : s[k] \in excluded}
    IN  IF stops = {} THEN Max(0, Len(s) - from + 1) ELSE MinOf(stops) - from

\* domain.replace(/^[.~]+/, '') and domain.replace(/^[.]+/, '')
StripLeading(s, class) == Drop(s, Span(s, 1, class))

\* s.split(c).map(d => d.trim())
SplitTrim(s, c) == LET parts == Split(s, c) IN [k \in DOMAIN parts |-> Trim(parts[k])]


\* [a-z0-9.-] and, with the i flag, [a-z0-9.-] on either case
domainCharPattern == Range(LowerChars) \cup Range(DigitChars) \cup {".", "-"}

HostChars == domainCharPattern \cup Range(UpperChars)

\* [^,\s$]
ParamStops == {",", "$"} \cup WhiteSpace

\* (?:#[@$%?]*#|\$\$) at the start of rest
cosmeticSeparatorAt(rest) ==
    \/ StartsWith(rest, <<"$", "$">>)
    \/ /\ StartsWith(rest, <<"#">>)
       /\ LET m == Span(rest, 2, {"@", "$", "%", "?"})
          IN  Len(rest) >= m + 2 /\ rest[m + 2] = "#"

\* /^([^#$]+)(?:#[@$%?]*#|\$\$)/: the length of group 1, 0 without a match
cosmeticMatch(line) ==
    LET n == SpanNot(line, 1, {"#", "$"})
    IN  IF n >= 1 /\ cosmeticSeparatorAt(Drop(line, n)) THEN n ELSE 0

\* /domain=([^,\s$]+)/: where the leftmost match starts, 0 without a match
domainMatch(line) ==
    LET at == {k \in 1..(Len(line) - Len(str.domainEq)) :
                  /\ SubSeq(line, k, k + Len(str.domainEq) - 1) = str.domainEq
                  /\ line[k + Len(str.domainEq)] \notin ParamStops}
    IN  IF at = {} THEN 0 ELSE MinOf(at)

\* group 1 of that match
domainParam(line) ==
    LET from == domainMatch(line) + Len(str.domainEq)
    IN  SubSeq(line, from, from + SpanNot(line, from, ParamStops) - 1)

\* /\|\|([a-z0-9.-]+)/i: group 1 of the leftmost match, empty without a match
networkMatch(line) ==
    LET at == {k \in 1..(Len(line) - 2) :
                  SubSeq(line, k, k + 1) = str.bars /\ line[k + 2] \in HostChars}
    IN  IF at = {} THEN <<>>
        ELSE SubSeq(line, MinOf(at) + 2, MinOf(at) + 1 + Span(line, MinOf(at) + 2, HostChars))

\* /^([^#\s]+?)(?:##(?:\+js\()?|#@#|##\^)/: the length of group 1, 0 without
uBlockMatch(line) ==
    LET n == SpanNot(line, 1, {"#"})
        rest == Drop(line, n)
    IN  IF /\ n >= 1
           /\ \A k \in 1..n : line[k] \notin WhiteSpace
           /\ StartsWith(rest, <<"#", "#">>) \/ StartsWith(rest, <<"#", "@", "#">>)
        THEN n ELSE 0

-----------------------------------------------------------------------------
\* The Rule Parser (cleaner-adblock.js)

AllDigits(s) == \A k \in DOMAIN s : s[k] \in Range(DigitChars)

\* /^(\d{1,3}\.){3}\d{1,3}$/
ipv4Pattern(s) ==
    LET parts == Split(s, ".")
    IN  Len(parts) = 4 /\ \A k \in 1..4 : Len(parts[k]) \in 1..3 /\ AllDigits(parts[k])

\* the .onion check left out
isValidDomain_noOnion(domain) ==
    /\ domain # <<>>
    /\ HasChar(domain, ".")
    /\ ~HasChar(domain, ":")
    /\ LET lower == ToLowerCase(domain)
       IN  /\ ~ipv4Pattern(lower)
           /\ \A k \in DOMAIN lower : lower[k] \in domainCharPattern

isValidDomain(domain) ==
    /\ domain # <<>>
    /\ HasChar(domain, ".")
    /\ ~HasChar(domain, ":")
    /\ LET lower == ToLowerCase(domain)
       IN  /\ ~EndsWith(lower, str.onion)
           /\ ~ipv4Pattern(lower)
           /\ \A k \in DOMAIN lower : lower[k] \in domainCharPattern

\* the checks every grammar makes on a candidate once its prefix is stripped
acceptable(domain) ==
    /\ domain # <<>> /\ HasChar(domain, ".") /\ Len(domain) >= MinDomainLength
    /\ isValidDomain(domain)

\* the loop over a comma-separated prefix (Adguard and uBlock grammars)
prefixDomains(domainPart) ==
    LET domainList == SplitTrim(domainPart, ",")
        stripped == [k \in DOMAIN domainList |-> StripLeading(domainList[k], {".", "~"})]
        keep(k) == ~HasChar(domainList[k], "*") /\ acceptable(stripped[k])
    IN  [j \in 1..Cardinality({k \in DOMAIN domainList : keep(k)}) |->
            stripped[CHOOSE k \in DOMAIN domainList :
                        keep(k) /\ Cardinality({i \in 1..k : keep(i)}) = j]]

\* the loop over the entries of a domain= parameter
paramDomains(line) ==
    IF domainMatch(line) = 0 THEN <<>>
    ELSE LET domainList == SplitTrim(domainParam(line), "|")
             stripped == [k \in DOMAIN domainList |-> StripLeading(domainList[k], {"."})]
             keep(k) == /\ ~HasChar(domainList[k], "*")
                        /\ ~StartsWith(domainList[k], <<"~">>)
                        /\ acceptable(stripped[k])
         IN  [j \in 1..Cardinality({k \in DOMAIN domainList : keep(k)}) |->
                 stripped[CHOOSE k \in DOMAIN domainList :
                             keep(k) /\ Cardinality({i \in 1..k : keep(i)}) = j]]

\* the ||host anchor of a line
\* the ||host anchor not taken
anchorDomains_none(line) == <<>>

anchorDomains(line) ==
    LET domain == networkMatch(line)
    IN  IF Includes(line, str.bars) /\ domain # <<>> /\ ~HasChar(domain, "*")
           /\ isValidDomain(domain)
        THEN <<domain>> ELSE <<>>

\* no early return after the Adguard grammar
extractDomains_noShortCircuit(rawLine) ==
    LET line == Trim(rawLine)
        adguard == IF cosmeticMatch(line) > 0
                   THEN prefixDomains(SubSeq(line, 1, cosmeticMatch(line))) ELSE <<>>
        networkRule == adguard \o paramDomains(line) \o anchorDomains(line)
    IN  IF line = <<>> \/ StartsWith(line, <<"!">>) \/ StartsWith(line, <<"[">>) THEN <<>>
        ELSE IF Len(networkRule) > 0 THEN networkRule
        ELSE IF uBlockMatch(line) = 0 THEN <<>>
        ELSE prefixDomains(SubSeq(line, 1, uBlockMatch(line)))

extractDomains(rawLine) ==
    LET line == Trim(rawLine)
        adguard == IF cosmeticMatch(line) > 0
                   THEN prefixDomains(SubSeq(line, 1, cosmeticMatch(line))) ELSE <<>>
        networkRule == paramDomains(line) \o anchorDomains(line)
    IN  IF line = <<>> \/ StartsWith(line, <<"!">>) \/ StartsWith(line, <<"[">>) THEN <<>>
        ELSE IF Len(adguard) > 0 THEN adguard
        ELSE IF Len(networkRule) > 0 THEN networkRule
        ELSE IF uBlockMatch(line) = 0 THEN <<>>
        ELSE prefixDomains(SubSeq(line, 1, uBlockMatch(line)))

-----------------------------------------------------------------------------
\* The List Rewriter (lib/export.js)

\* the set of lib/domain-utils.js used when the suffix table cannot be loaded
utilsMultiTLDs ==
    { <<"c","o",".","u","k">>, <<"c","o","m",".","a","u">>, <<"c","o","m",".","b","r">>,
      <<"c","o",".","n","z">>, <<"c","o",".","z","a">> }

isSimilarDomain(domain1, domain2) ==
    BaseDomainOf(domain1, utilsMultiTLDs) = BaseDomainOf(domain2, utilsMultiTLDs)

\* a line that is a comment, a header or blank
isCommentOrBlank(line) ==
    \/ Trim(line) = <<>>
    \/ StartsWith(Trim(line), <<"!">>)
    \/ StartsWith(Trim(line), <<"[">>)

\* the domains of the cosmetic prefix, as extractDomainsFromLine takes them
cosmeticDomainSet(line) ==
    IF cosmeticMatch(line) = 0 THEN {}
    ELSE LET domainList == SplitTrim(SubSeq(line, 1, cosmeticMatch(line)), ",")
             stripped == [k \in DOMAIN domainList |-> StripLeading(domainList[k], {".", "~"})]
         IN  { ToLowerCase(stripped[k]) :
                 k \in {i \in DOMAIN domainList :
                           /\ ~HasChar(stripped[i], "*")
                           /\ stripped[i] # <<>> /\ HasChar(stripped[i], ".")} }

paramDomainSet(line) ==
    IF domainMatch(line) = 0 THEN {}
    ELSE LET domainList == Split(domainParam(line), "|")
             stripped == [k \in DOMAIN domainList |->
                             StripLeading(Trim(domainList[k]), {".", "~"})]
         IN  { ToLowerCase(stripped[k]) :
                 k \in {i \in DOMAIN domainList :
                           /\ stripped[i] # <<>> /\ ~HasChar(stripped[i], "*")
                           /\ HasChar(stripped[i], ".")} }

anchorDomainSet(line) ==
    LET domain == networkMatch(line)
    IN  IF Includes(line, str.bars) /\ domain # <<>> /\ ~HasChar(domain, "*")
           /\ HasChar(domain, ".")
        THEN {ToLowerCase(domain)} ELSE {}

extractDomainsFromLine(line) ==
    IF isCommentOrBlank(line) THEN {}
    ELSE cosmeticDomainSet(line) \cup paramDomainSet(line) \cup anchorDomainSet(line)

\* the value null of a line that is to be removed
Null == <<"null">>

\* an entry of a domain list that the filter callbacks drop
isRemoved(entry, removal) ==
    LET cleanDomain == ToLowerCase(StripLeading(entry, {".", "~"}))
    IN  ~HasChar(cleanDomain, "*") /\ cleanDomain \in removal

\* line.replace(/domain=[^,\s$]+/, `domain=${newDomainParam}`)
replaceDomainParam(line, newDomainParam) ==
    LET from == domainMatch(line) + Len(str.domainEq)
    IN  SubSeq(line, 1, from - 1) \o newDomainParam
            \o Drop(line, from - 1 + Len(domainParam(line)))

cleanDomainParameter(line, removal, networkDomainDead) ==
    IF ~Includes(line, str.domainEq) \/ domainMatch(line) = 0 THEN line
    ELSE LET domainList == Split(domainParam(line), "|")
             kept(domain) == ~isRemoved(Trim(domain), removal)
             cleanedDomains == SelectSeq(domainList, kept)
         IN  IF Len(cleanedDomains) = 0
             THEN IF Includes(line, str.bars) /\ ~networkDomainDead THEN line ELSE Null
             ELSE IF Len(cleanedDomains) = Len(domainList) THEN line
             ELSE replaceDomainParam(line, Join(cleanedDomains, <<"|">>))

cleanCosmeticDomains(line, removal) ==
    IF cosmeticMatch(line) = 0 THEN line
    ELSE LET domainList == SplitTrim(SubSeq(line, 1, cosmeticMatch(line)), ",")
             rulePart == Drop(line, cosmeticMatch(line))
             kept(domain) == ~isRemoved(domain, removal)
             cleanedDomains == SelectSeq(domainList, kept)
         IN  IF Len(cleanedDomains) = 0 THEN Null
             ELSE Join(cleanedDomains, <<",">>) \o rulePart

\* lines 147-160: the removal set
removalSet(deadList, redirectList, ignoreSimilar) ==
    LET exempt(r) == ignoreSimilar /\ isSimilarDomain(r.domain, r.finalDomain)
    IN  { ToLowerCase(deadList[k].domain) : k \in DOMAIN deadList }
        \cup { ToLowerCase(redirectList[k].domain) :
                 k \in {i \in DOMAIN redirectList : ~exempt(redirectList[i])} }

\* lines 177-262: the body of the loop over the input lines, for one line
processLine(line, removal) ==
    LET hasDomainParam == Includes(line, str.domainEq)
        networkDomainDead ==
            /\ Includes(line, str.bars) /\ networkMatch(line) # <<>>
            /\ ToLowerCase(networkMatch(line)) \in removal
        afterParam == IF hasDomainParam
                      THEN cleanDomainParameter(line, removal, networkDomainDead)
                      ELSE line
        afterCosmetic == IF cosmeticMatch(afterParam) > 0
                         THEN cleanCosmeticDomains(afterParam, removal)
                         ELSE afterParam
        wasModified == afterParam # line \/ afterCosmetic # afterParam
        hasDeadDomain ==
            ~hasDomainParam /\ extractDomainsFromLine(afterCosmetic) \cap removal # {}
    IN  IF isCommentOrBlank(line)
        THEN [kept |-> TRUE, line |-> line, modified |-> FALSE]
        ELSE IF afterParam = Null \/ afterCosmetic = Null
        THEN [kept |-> FALSE, line |-> Null, modified |-> FALSE]
        ELSE [kept |-> ~hasDeadDomain, line |-> afterCosmetic, modified |-> wasModified]

\* inputFile.replace(/\.txt$/, '_cleaned.txt')
outputPath(path) ==
    IF EndsWith(path, str.txt)
    THEN SubSeq(path, 1, Len(path) - Len(str.txt)) \o str.cleanedTxt
    ELSE path

\* lines 1074-1075 of cleaner-adblock.js: the records handed to the Rewriter
dataOf(rs, type) ==
    LET hits == {k \in DOMAIN rs : rs[k].type = type}
    IN  [j \in 1..Cardinality(hits) |->
            rs[CHOOSE k \in hits : Cardinality({i \in hits : i <= k}) = j].data]

-----------------------------------------------------------------------------
\* The run of exportCleanedList

\* lines of a filter list: y.co is the domain found dead, a.co a live one and
\* s.x.co the one that redirects
filterLines ==
    [ comment |->
          <<"!"," ","y",".","c","o">>,
      blank |->
          <<>>,
      anchorDead |->
          <<"|","|","y",".","c","o","^">>,
      anchorLive |->
          <<"|","|","a",".","c","o","^">>,
      anchorUpper |->
          <<"|","|","Y",".","c","o","^">>,
      paramDead |->
          <<"|","|","a",".","c","o","^","$","d","o","m","a","i","n","=","y",".","c","o">>,
      anchorDeadParamLive |->
          <<"|","|","y",".","c","o","^","$","d","o","m","a","i","n","=","a",".","c","o">>,
      paramMixed |->
          <<"|","|","a",".","c","o","^","$","d","o","m","a","i","n","=","y",".","c","o","|","a",".","c","o">>,
      pathParamDead |->
          <<"/","a","d","$","d","o","m","a","i","n","=","y",".","c","o">>,
      allDead |->
          <<"|","|","y",".","c","o","^","$","d","o","m","a","i","n","=","y",".","c","o">>,
      cosmeticMixed |->
          <<"y",".","c","o",",","a",".","c","o","#","#",".","a","d">>,
      cosmeticDead |->
          <<"y",".","c","o","#","#",".","a","d">>,
      cosmeticSpaced |->
          <<"a",".","c","o",","," ","s",".","x",".","c","o","#","@","#",".","x">>,
      anchorRedirect |->
          <<"|","|","s",".","x",".","c","o","^","$","t","h","i","r","d","-","p","a","r","t","y">>,
      cosmeticAnchorDead |->
          <<"y",".","c","o",",","a",".","c","o","#","#","|","|","y",".","c","o">> ]

LineChoices == {filterLines[name] : name \in DOMAIN filterLines}

\* names of the input file
FileChoices == { <<"f",".","t","x","t">>, <<"f",".","l","i","s","t">> }

\* the classification results a run of the Rewriter is given
ResultChoices ==
    { <<>>,
      <<DeadHttp(dom.Y, 404)>>,
      <<DeadHttp(dom.Y, 404),
        RedirectResult(dom.subX, dom.X, str.https \o dom.subX, str.https \o dom.X \o <<"/">>, 200)>>,
      <<RedirectResult(dom.subX, dom.new, str.https \o dom.subX, str.https \o dom.new \o <<"/">>, 200)>> }

\* the lists of at most MaxLines lines
ListChoices == UNION {[1..n -> LineChoices] : n \in 1..MaxLines}

\* processDomains has returned rs: every task is done
AfterProbing(rs, ignoreSimilar) ==
    /\ ADD_WWW = FALSE
    /\ IGNORE_SIMILAR = ignoreSimilar
    /\ network = BasicNetwork
    /\ domainObjects = expandDomainsWithWww([k \in DOMAIN rs |-> rs[k].data.domain], FALSE)
    /\ phase = "done"
    /\ batchStart = ((Len(rs) + CONCURRENCY - 1) \div CONCURRENCY) * CONCURRENCY
    /\ results = rs
    /\ pc = [t \in DOMAIN rs |-> "done"]
    /\ vi = [t \in DOMAIN rs |-> 1]
    /\ pageClosed = [t \in DOMAIN rs |-> FALSE]
    /\ forceCloseTimer = [t \in DOMAIN rs |-> FALSE]
    /\ pending = [t \in DOMAIN rs |-> Continue]
    /\ ret = rs
    /\ att = [t \in DOMAIN rs |-> NoAttempt]
    /\ pages = {}
    /\ doneOrder = <<>>
    /\ closeCalls = [t \in DOMAIN rs |-> 0]
    /\ closeFailures = 0
    /\ forceCloses = 0

\* exportCleanedList is called on a file that holds the lines
InitExport ==
    \E list \in ListChoices, file \in FileChoices, rs \in ResultChoices,
       ignoreSimilar \in BOOLEAN :
        /\ AfterProbing(rs, ignoreSimilar)
        /\ Off({"parser", "utility", "reporting"})
        /\ inputFile = file
        /\ files = [p \in {file} |-> Join(list, <<"\n">>)]
        /\ exportStep = "start"
        /\ inputLines = <<>>
        /\ domainsToRemove = {}
        /\ lineNo = 0
        /\ outputLines = <<>>
        /\ removedCount = 0
        /\ modifiedCount = 0
        /\ outputFile = <<>>

\* lines 147-176: the removal set is built and the input file is read
ExportStart ==
    /\ exportStep = "start"
    /\ domainsToRemove' = removalSet(dataOf(results, "dead"), dataOf(results, "redirect"),
                                     IGNORE_SIMILAR)
    /\ inputLines' = Split(files[inputFile], "\n")
    /\ lineNo' = 1
    /\ exportStep' = "lines"
    /\ UNCHANGED <<parser, utility, reporting, probing, inputFile, files, outputLines, removedCount, modifiedCount,
                   outputFile>>

\* lines 183-262: one round of the loop over the input lines
ExportLine ==
    /\ exportStep = "lines"
    /\ lineNo <= Len(inputLines)
    /\ LET processed == processLine(inputLines[lineNo], domainsToRemove)
       IN  /\ outputLines' = IF processed.kept THEN Append(outputLines, processed.line)
                             ELSE outputLines
           /\ removedCount' = IF processed.kept THEN removedCount ELSE removedCount + 1
           /\ modifiedCount' = IF processed.modified THEN modifiedCount + 1
                               ELSE modifiedCount
    /\ lineNo' = lineNo + 1
    /\ UNCHANGED <<parser, utility, reporting, probing, inputFile, files, inputLines, domainsToRemove, exportStep,
                   outputFile>>

\* lines 265-272: the cleaned list is written
ExportWrite ==
    /\ exportStep = "lines"
    /\ lineNo > Len(inputLines)
    /\ outputFile' = outputPath(inputFile)
    /\ files' = [p \in DOMAIN files \cup {outputPath(inputFile)} |->
                    IF p = outputPath(inputFile) THEN Join(outputLines, <<"\n">>)
                    ELSE files[p]]
    /\ exportStep' = "done"
    /\ UNCHANGED <<parser, utility, reporting, probing, inputFile, inputLines, domainsToRemove, lineNo, outputLines,
                   removedCount, modifiedCount>>

NextExport == ExportStart \/ ExportLine \/ ExportWrite

SpecExport == InitExport /\ [][NextExport]_vars

-----------------------------------------------------------------------------
\* The plain domain list grammar, and parseDomainsFromFile

\* the elements of xs at the indices of idx, in their order
SubsequenceAt(xs, idx) ==
    [j \in 1..Cardinality(idx) |->
        xs[CHOOSE k \in idx : Cardinality({i \in idx : i <= k}) = j]]

parseSimpleDomains(rawLine) ==
    LET line == Trim(rawLine)
        domainCandidates == SplitTrim(line, ",")
        \* domain.replace(/^https?:\/\//, '')
        stripProtocol(domain) ==
            IF StartsWith(domain, str.https) THEN Drop(domain, Len(str.https))
            ELSE IF StartsWith(domain, <<"h","t","t","p",":","/","/">>) THEN Drop(domain, 7)
            ELSE domain
        \* protocol, path and port removed
        cleaned == [k \in DOMAIN domainCandidates |->
                       Split(Split(stripProtocol(domainCandidates[k]), "/")[1], ":")[1]]
        valid == {k \in DOMAIN domainCandidates :
                     /\ domainCandidates[k] # <<>>
                     /\ cleaned[k] # <<>> /\ isValidDomain(cleaned[k])}
    IN  IF \/ line = <<>> \/ StartsWith(line, <<"#">>) \/ StartsWith(line, <<"!">>)
           \/ StartsWith(line, <<"/", "/">>)
        THEN <<>>
        ELSE SubsequenceAt([k \in DOMAIN cleaned |-> ToLowerCase(cleaned[k])], valid)

\* Set.prototype.add for each extracted domain: the Set keeps insertion order
\* and takes a string once
addAll(set, extractedDomains) ==
    set \o SubsequenceAt(extractedDomains,
                         {k \in DOMAIN extractedDomains :
                             /\ extractedDomains[k] \notin Range(set)
                             /\ \A i \in 1..(k - 1) :
                                   extractedDomains[i] # extractedDomains[k]})

\* a < b as Array.prototype.sort compares strings: by the UTF-16 code units
\* of their characters
Before(a, b) ==
    LET codeUnits == <<"-", ".">> \o DigitChars \o UpperChars \o LowerChars
        codeOf(c) == CHOOSE k \in DOMAIN codeUnits : codeUnits[k] = c
    IN  \E k \in 1..(Len(a) + 1) :
            /\ k <= Len(b)
            /\ SubSeq(a, 1, k - 1) = SubSeq(b, 1, k - 1)
            /\ k > Len(a) \/ codeOf(a[k]) < codeOf(b[k])

\* Array.from(domains).sort()
sort(set) ==
    [j \in 1..Len(set) |->
        CHOOSE d \in Range(set) : Cardinality({e \in Range(set) : Before(e, d)}) = j - 1]

\* settings of main: an excerpt of the list at lines 19-38, and the test mode
options ==
    [ IGNORED_DOMAINS |-> { <<"t","w","i","t","t","e","r",".","c","o","m">> },
      TEST_MODE |-> FALSE,
      TEST_COUNT |-> 5 ]

\* lines of an input file, in either grammar
ruleLines ==
    [ anchorUpper |->
          <<"|","|","Y",".","c","o","^">>,
      anchorLower |->
          <<"|","|","y",".","c","o","^">>,
      scenario |->
          <<"|","|","a","d","s",".","e","x","a","m","p","l","e",".","n","e","t","^","$","s","c","r","i","p","t",",","d","o","m","a","i","n","=","s","i","t","e","1",".","c","o","m","|","s","i","t","e","2",".","c","o","m">>,
      cosmeticList |->
          <<"y",".","c","o",",","a",".","c","o","#","#",".","a","d">>,
      cosmeticWithAnchor |->
          <<"a",".","c","o","#","#","|","|","y",".","c","o">>,
      wildcardPrefix |->
          <<"*","#","#","|","|","y",".","c","o">>,
      fallback |->
          <<"y",".","c","o",",","$","x","#","#",".","a","d">>,
      onionCosmetic |->
          <<"x",".","o","n","i","o","n","#","#",".","a","d">>,
      onionAnchor |->
          <<"|","|","a",".","O","N","I","O","N","^">>,
      paramMixed |->
          <<"/","a","d","$","d","o","m","a","i","n","=","~","a",".","c","o","|","y",".","o","n","i","o","n","|","*",".","x",".","c","o","|","s",".","x",".","c","o",":","8","|","y",".","c","o">>,
      ipAnchor |->
          <<"|","|","1",".","2",".","3",".","4","^">>,
      comment |->
          <<"!"," ","y",".","c","o">>,
      simpleUpper |->
          <<"Y",".","c","o">>,
      simpleUrl |->
          <<"h","t","t","p","s",":","/","/","A",".","c","o","/","p",","," ","y",".","c","o",":","8","0","8","0">>,
      simpleComment |->
          <<"#"," ","y",".","c","o">>,
      simpleOnion |->
          <<"w","w","w",".","x",".","o","n","i","o","n">>,
      simpleWww |->
          <<"w","w","w",".","y",".","c","o">>,
      ignored |->
          <<"t","w","i","t","t","e","r",".","c","o","m">> ]

\* main is about to read an input file of at most MaxLines lines
InitParse ==
    \E list \in UNION {[1..n -> {ruleLines[name] : name \in DOMAIN ruleLines}] :
                           n \in 1..MaxLines},
       simple \in BOOLEAN, addWww \in BOOLEAN :
        /\ InitTasks(<<>>, addWww, FALSE, BasicNetwork)
        /\ Off({"rewriter", "utility", "reporting"})
        /\ inputFile = <<"f", ".", "t", "x", "t">>
        /\ files = [p \in {inputFile} |-> Join(list, <<"\n">>)]
        /\ SIMPLE_DOMAINS = simple
        /\ parseStep = "read"
        /\ lines = <<>>
        /\ lineIndex = 0
        /\ domains = <<>>

\* lines 424-426: the file is read and split into lines
ParseRead ==
    /\ parseStep = "read"
    /\ lines' = Split(files[inputFile], "\n")
    /\ lineIndex' = 1
    /\ domains' = <<>>
    /\ parseStep' = "lines"
    /\ UNCHANGED <<probing, rewriter, utility, reporting, SIMPLE_DOMAINS>>

\* lines 428-441: one round of the loop over the lines
ParseLine ==
    /\ parseStep = "lines"
    /\ lineIndex <= Len(lines)
    /\ domains' = addAll(domains, IF SIMPLE_DOMAINS THEN parseSimpleDomains(lines[lineIndex])
                                  ELSE extractDomains(lines[lineIndex]))
    /\ lineIndex' = lineIndex + 1
    /\ UNCHANGED <<probing, rewriter, utility, reporting, SIMPLE_DOMAINS, parseStep, lines>>

\* line 443: parseDomainsFromFile returns the sorted array
ParseReturn ==
    /\ parseStep = "lines"
    /\ lineIndex > Len(lines)
    /\ domains' = sort(domains)
    /\ parseStep' = "parsed"
    /\ UNCHANGED <<probing, rewriter, utility, reporting, SIMPLE_DOMAINS, lines, lineIndex>>

\* lines 1008-1030 of main: the ignored domains are dropped, test mode cuts
\* the array, and the tasks are made
Expand ==
    /\ parseStep = "parsed"
    /\ LET notIgnored == SelectSeq(domains, LAMBDA d : d \notin options.IGNORED_DOMAINS)
           checked == IF options.TEST_MODE /\ Len(notIgnored) > options.TEST_COUNT
                      THEN SubSeq(notIgnored, 1, options.TEST_COUNT) ELSE notIgnored
       IN  /\ domains' = checked
           /\ domainObjects' = expandDomainsWithWww(checked, ADD_WWW)
    /\ parseStep' = "expanded"
    /\ UNCHANGED <<rewriter, utility, reporting, SIMPLE_DOMAINS, lines, lineIndex,
                   ADD_WWW, IGNORE_SIMILAR, network, phase, batchStart, results, pc, vi,
                   pageClosed, forceCloseTimer, pending, ret, att, pages, doneOrder,
                   closeCalls, closeFailures, forceCloses>>

NextParse == ParseRead \/ ParseLine \/ ParseReturn \/ Expand

SpecParse == InitParse /\ [][NextParse]_vars

-----------------------------------------------------------------------------
\* Calls of the utility functions getBaseDomain, truncateError and of the two
\* similarity tests

\* the arguments of a call: the valid domains of at most MaxLabels labels,
\* the contents multi_label_suffixes.json can give the suffix table, error
\* messages of some lengths, values of maxLength, and the hosts of a redirect
\* under suffixes that the built-in fallback sets name
utilChoices ==
    LET labels == { <<"w","w","w">>, <<"a">>, <<"c","o">>, <<"u","k">> }
    IN  [ domains |->
              { d \in { Join(parts, <<".">>) :
                          parts \in UNION {[1..n -> labels] : n \in 1..MaxLabels} } :
                  isValidDomain(d) },
          tables |->
              SUBSET { <<"c","o",".","u","k">>, <<"a",".","c","o",".","u","k">>,
                       <<"w","w","w",".","c","o">> },
          messages |->
              { [k \in 1..n |-> "x"] : n \in (0..MaxMessage) \cup {DefaultMaxLength, 200} },
          caps |->
              (1..MaxCap) \cup {DefaultMaxLength},
          hosts |->
              { name \o suffix :
                  name \in { <<"x",".">>, <<"y",".">>, <<"s",".","x",".">>, <<"w","w","w",".","x",".">> },
                  suffix \in { <<"c","o">>, <<"c","o",".","u","k">>, <<"c","o",".","n","z">>,
                               <<"c","o","m",".","n","z">> } } ]

\* a utility function is about to be called
InitUtil ==
    /\ InitTasks(<<>>, FALSE, FALSE, BasicNetwork)
    /\ Off({"files", "rewriter", "parser", "reporting"})
    /\ utilOut = <<>>
    /\ \/ \E d \in utilChoices.domains, table \in utilChoices.tables :
              utilIn = [fn |-> "getBaseDomain", domain |-> d, table |-> table]
       \/ \E message \in utilChoices.messages, maxLength \in utilChoices.caps :
              utilIn = [fn |-> "truncateError", message |-> message,
                        maxLength |-> maxLength]
       \/ \E d1 \in utilChoices.hosts, d2 \in utilChoices.hosts :
              utilIn = [fn |-> "isSimilarDomain", originalDomain |-> d1, finalDomain |-> d2]

\* getBaseDomain is called on the domain, and then on the value it returned
CallGetBaseDomain ==
    /\ utilIn.fn = "getBaseDomain"
    /\ Len(utilOut) < 2
    /\ utilOut' = Append(utilOut,
                         BaseDomainOf(IF utilOut = <<>> THEN utilIn.domain
                                      ELSE utilOut[Len(utilOut)], utilIn.table))
    /\ UNCHANGED <<probing, rewriter, parser, reporting, utilIn>>

\* truncateError is called on the message
CallTruncateError ==
    /\ utilIn.fn = "truncateError"
    /\ utilOut = <<>>
    /\ utilOut' = <<truncateError(utilIn.message, utilIn.maxLength)>>
    /\ UNCHANGED <<probing, rewriter, parser, reporting, utilIn>>

\* with --ignore-similar and no suffix table file, the classifier's test
\* (isSimilarDomainRedirect) and then the Rewriter's test (isSimilarDomain) are
\* called on the hosts of a redirect
CallIsSimilarDomain ==
    /\ utilIn.fn = "isSimilarDomain"
    /\ Len(utilOut) < 2
    /\ utilOut' = Append(utilOut,
                         IF utilOut = <<>>
                         THEN isSimilarDomainRedirect(utilIn.originalDomain,
                                                      utilIn.finalDomain, TRUE)
                         ELSE isSimilarDomain(utilIn.originalDomain, utilIn.finalDomain))
    /\ UNCHANGED <<probing, rewriter, parser, reporting, utilIn>>

NextUtil == CallGetBaseDomain \/ CallTruncateError \/ CallIsSimilarDomain

SpecUtil == InitUtil /\ [][NextUtil]_vars

-----------------------------------------------------------------------------
\* main once processDomains has returned: the DNS checks and the reports

\* checkDNSRecord: dig is asked for the domain and for its www counterpart,
\* and the first of the two that has an A record is reported
checkDNSRecord(domain) ==
    LET variants == IF StartsWith(domain, str.www) THEN <<domain, StripWww(domain)>>
                    ELSE <<domain, str.www \o domain>>
        found == {k \in DOMAIN variants : dnsAnswers[variants[k]]}
    IN  IF found = {} THEN [hasRecord |-> FALSE, variant |-> Null]
        ELSE [hasRecord |-> TRUE, variant |-> variants[MinOf(found)]]

\* lines 1080-1082: the dead records whose DNS is looked up
domainsToCheck(deadList) ==
    SelectSeq(deadList,
              LAMBDA item : \/ "statusCode" \notin DOMAIN item
                            \/ item.statusCode \in {NoStatus, 0}
                            \/ Includes(item.reason, <<"E","R","R","_">>)
                            \/ Includes(item.reason, str.timeout))

\* processDomains has returned at most MaxDead results, of distinct domains
InitReport ==
    \E rs \in UNION {[1..n -> { DeadHttp(dom.Y, 404), DeadHttp(dom.A, NoStatus),
                                DeadError(dom.X, errorMessages.nameNotResolved),
                                RedirectResult(dom.subX, dom.new, str.https \o dom.subX,
                                               str.https \o dom.new \o <<"/">>, 200) }] :
                       n \in 0..MaxDead},
       dig \in BOOLEAN, digAlways \in BOOLEAN :
        /\ \A i, j \in DOMAIN rs : rs[i].data.domain = rs[j].data.domain => i = j
        /\ AfterProbing(rs, FALSE)
        /\ Off({"files", "rewriter", "parser", "utility"})
        /\ CHECK_DIG = dig
        /\ CHECK_DIG_ALWAYS = digAlways
        /\ mainStep = "separate"
        /\ deadDomains = <<>>
        /\ dnsAnswers \in [UNION { {rs[k].data.domain, str.www \o rs[k].data.domain} :
                                     k \in DOMAIN rs } -> BOOLEAN]

\* lines 1074-1078: the results are separated by type
SeparateResults ==
    /\ mainStep = "separate"
    /\ deadDomains' = dataOf(results, "dead")
    /\ mainStep' = IF (CHECK_DIG \/ CHECK_DIG_ALWAYS) /\ Len(dataOf(results, "dead")) > 0
                   THEN "dns" ELSE "summary"
    /\ UNCHANGED <<probing, rewriter, parser, utility, CHECK_DIG, CHECK_DIG_ALWAYS,
                   dnsAnswers>>

\* lines 1079-1115: the lookups run, each dead record is given the answer
\* the map holds for its domain, and with --check-dig-always the records with
\* an A record are dropped; reading hasRecord of a missing answer throws
DnsChecks ==
    /\ mainStep = "dns"
    /\ LET checked == {item.domain : item \in Range(domainsToCheck(deadDomains))}
           withInfo == [k \in DOMAIN deadDomains |->
                           IF deadDomains[k].domain \in checked
                           THEN ("dnsInfo" :> checkDNSRecord(deadDomains[k].domain))
                                    @@ deadDomains[k]
                           ELSE deadDomains[k]]
       IN  IF ~CHECK_DIG_ALWAYS
           THEN deadDomains' = withInfo /\ mainStep' = "summary"
           ELSE IF \E k \in DOMAIN withInfo : "dnsInfo" \notin DOMAIN withInfo[k]
           THEN deadDomains' = withInfo /\ mainStep' = "threw"
           ELSE /\ deadDomains' = SelectSeq(withInfo, LAMBDA item : ~item.dnsInfo.hasRecord)
                /\ mainStep' = "summary"
    /\ UNCHANGED <<probing, rewriter, parser, utility, CHECK_DIG, CHECK_DIG_ALWAYS,
                   dnsAnswers>>

\* lines 1118-1135: the summary is printed and the reports are written;
\* deadLine is the line writeDeadDomains makes of a record (lines 896-905), and
\* the header lines of the reports are left out
Summary ==
    /\ mainStep = "summary"
    /\ LET deadLine(item) ==
               item.domain \o <<" ", "#", " ">> \o item.reason
                   \o (IF "dnsInfo" \notin DOMAIN item THEN <<>>
                       ELSE IF item.dnsInfo.hasRecord
                       THEN <<" ","|"," ","D","N","S",":"," ">> \o item.dnsInfo.variant
                       ELSE <<" ","|"," ","D","N","S",":"," ","N","o"," ","A"," ",
                              "r","e","c","o","r","d">>)
       IN  files' = [p \in {<<"d","e","a","d">>, <<"r","e","d","i","r","e","c","t">>} |->
                IF p = <<"d","e","a","d">>
                THEN Join([k \in DOMAIN deadDomains |-> deadLine(deadDomains[k])],
                          <<"\n">>)
                ELSE Join([k \in DOMAIN dataOf(results, "redirect") |->
                              dataOf(results, "redirect")[k].domain], <<"\n">>)]
    /\ mainStep' = "reported"
    /\ UNCHANGED <<probing, parser, utility, CHECK_DIG, CHECK_DIG_ALWAYS, deadDomains,
                   dnsAnswers, inputFile, exportStep, domainsToRemove, inputLines, lineNo,
                   outputLines, removedCount, modifiedCount, outputFile>>

NextReport == SeparateResults \/ DnsChecks \/ Summary

SpecReport == InitReport /\ [][NextReport]_vars

-----------------------------------------------------------------------------
\* Vocabulary of the claims about checkDomain

\* a connection-class error: one of the connection patterns, and neither
\* certificate-related nor a navigation timeout
ConnectionClass(message) ==
    /\ \E pat \in deadPatterns : Includes(message, pat)
    /\ ~Includes(message, str.ERR_CERT) /\ ~Includes(message, str.SSL)
    /\ ~Includes(message, str.certificate)
    /\ ~Includes(message, str.navigationTimeoutOf)

\* the body is longer than 500 and the final URL is no blank placeholder
SubstantialPage(a) ==
    a.pageContent.length > 500 /\ ~Includes(a.finalUrl, str.aboutBlank)

\* the edge-network error-page host shows in the body or in the final URL
EdgeHostShown(a) ==
    phrase.edgeSuite \in a.pageContent.phrases \/ Includes(a.finalUrl, str.edgeSuite)

\* the anti-bot denial signature: the denial phrase together with the
\* permission phrase, the 'Reference #' marker or the edge-network host
DenialSignature(a) ==
    /\ phrase.accessDenied \in a.pageContent.phrases
    /\ \/ phrase.noPermission \in a.pageContent.phrases
       \/ phrase.reference \in a.pageContent.phrases
       \/ EdgeHostShown(a)

\* the event that ended an attempt leaves the variant provisionally dead
ProvisionallyDead(a) ==
    \/ /\ a.kind = "response"
       /\ \/ a.statusCode >= 400 /\ a.statusCode # 403
          \/ a.statusCode = NoStatus
          \/ /\ a.statusCode = 403
             /\ ~SubstantialPage(a)
             /\ ~DenialSignature(a)
    \/ /\ a.kind = "error"
       /\ ConnectionClass(a.message)

LastOf(t) == Len(domainObjects[t].variants)

\* C1: a task moves from one variant to the next one in the list only past an
\* attempt that ended provisionally dead, and it becomes Dead only in a step of
\* the attempt on its last variant, which itself ended provisionally dead (so
\* every variant was attempted, in order, before a Dead result).
C1_DeadOnlyAfterAllVariants ==
    [][\A t \in Tasks :
          /\ vi'[t] # vi[t] =>
                \/ vi'[t] = 1
                \/ vi'[t] = vi[t] + 1 /\ ProvisionallyDead(att'[t])
          /\ (ret[t].type # "dead" /\ ret'[t].type = "dead") =>
                /\ vi[t] = LastOf(t)
                /\ pc[t] \in {"goto", "closing", "closingCatch"}
                /\ ProvisionallyDead(att'[t])
                /\ ret'[t] # FallbackResult(domainObjects[t].original)
      ]_vars

\* a task of two variants is Dead after its second attempt
C1_Witness ==
    \E t \in Tasks : ret[t].type = "dead" /\ vi[t] = 2 /\ LastOf(t) = 2

\* C2: no task ends without a classification and processDomains does not
\* fail, whatever a step of an attempt does.
C2_EveryTaskClassified ==
    /\ phase # "rejected"
    /\ \A t \in Tasks : pc[t] = "done" => ret[t].type \in {"dead", "redirect", "null"}

InFlight == {t \in Tasks : pc[t] \notin {"idle", "done"}}

\* the pages held by the attempts in progress
HeldPages == {p \in pages : p.task \in InFlight /\ p.v = vi[p.task]}

BatchNumber(t) == (t - 1) \div CONCURRENCY

reported(r) == r.type \in {"dead", "redirect"}

\* C4: what processDomains returns is the non-Active outcomes in task order:
\* no Active outcome, no task twice.
C4_ResultsInSubmissionOrder ==
    phase = "done" =>
        /\ results = SelectSeq(ret, reported)
        /\ \A k \in DOMAIN results : results[k].type # "null"
        /\ \A j, k \in DOMAIN results :
              j < k => results[j].data.domain # results[k].data.domain

\* two reported tasks of a batch completed in the reverse of task order
C4_Witness ==
    /\ phase = "done"
    /\ \E j, k \in DOMAIN doneOrder :
          /\ j < k /\ doneOrder[j] > doneOrder[k]
          /\ reported(ret[doneOrder[j]]) /\ reported(ret[doneOrder[k]])

\* C5: every open page belongs to an attempt that has not ended yet.
C5_PagesClosedWhenAttemptEnds ==
    \A p \in pages :
        /\ pc[p.task] \in {"setup", "goto", "closing", "closingCatch"}
        /\ p.v = vi[p.task]

-----------------------------------------------------------------------------
\* Claims about the List Rewriter

\* the lines of the cleaned list, read back from the file that was written
WrittenLines == Split(files[outputFile], "\n")

\* C6: once the cleaned list is written, re-parsing it line by line with
\* extractDomains yields no domain of the removal set.
C6_RoundTrip ==
    exportStep = "done" =>
        \A k \in DOMAIN WrittenLines :
            \A d \in Range(extractDomains(WrittenLines[k])) : d \notin domainsToRemove

-----------------------------------------------------------------------------
\* The decision of an attempt, read off the state

\* the attempt whose ending event att[t] holds
Advanced(t) == pc[t] \in {"newPage", "setup", "goto"} \/ ret[t] = Rejected

AttIndex(t) == IF Advanced(t) THEN vi[t] - 1 ELSE vi[t]

AttVariant(t) == domainObjects[t].variants[AttIndex(t)]

AttIsLast(t) == AttIndex(t) = LastOf(t)

\* what the task did on that event
Taken(t) ==
    IF Advanced(t) THEN Continue
    ELSE IF pc[t] \in {"closing", "closingCatch"} THEN pending[t]
    ELSE Return(ret[t])

Ended(t) == att[t].kind # "none" /\ pc[t] # "idle"

\* the attempt ended on the response of its fetch
Responded(t) == Ended(t) /\ att[t].kind = "response"

\* the attempt ended on an error raised in it
Raised(t) == Ended(t) /\ att[t].kind = "error"

RequestedUrl(t) == str.https \o AttVariant(t)

RequestedHost(t) == extractDomain(RequestedUrl(t))

FinalHost(t) == extractDomain(att[t].finalUrl)

SameBase(t) == getBaseDomain(RequestedHost(t)) = getBaseDomain(FinalHost(t))

RedirectRecord(t) ==
    [type |-> "redirect",
     data |-> [domain |-> domainObjects[t].original, finalDomain |-> FinalHost(t),
               originalUrl |-> RequestedUrl(t), finalUrl |-> att[t].finalUrl,
               statusCode |-> att[t].statusCode]]

\* Active on an unchanged host, Active on a change inside one base domain when
\* similarity-ignoring is enabled, Redirect on every other host change
HostRule(t) ==
    IF RequestedHost(t) = FinalHost(t) THEN ActiveResult
    ELSE IF SameBase(t) /\ IGNORE_SIMILAR THEN ActiveResult
    ELSE RedirectRecord(t)

CertificateRelated(message) ==
    Includes(message, str.ERR_CERT) \/ Includes(message, str.SSL) \/ Includes(message, str.certificate)

Dead403(t) ==
    [type |-> "dead",
     data |-> [domain |-> domainObjects[t].original, statusCode |-> 403,
               reason |-> <<"H","T","T","P"," ","4","0","3">>]]

\* the four steps of the decision on a 403, for a given signature test
Decision403(t, signature) ==
    IF SubstantialPage(att[t]) THEN Return(ActiveResult)
    ELSE IF signature THEN Return(ActiveResult)
    ELSE IF ~AttIsLast(t) THEN Continue
    ELSE Return(Dead403(t))

\* the signature as the claim words it: the denial phrase with the
\* 'Reference #' marker or with the edge-network host
StatedSignature(a) ==
    /\ phrase.accessDenied \in a.pageContent.phrases
    /\ phrase.reference \in a.pageContent.phrases \/ EdgeHostShown(a)

-----------------------------------------------------------------------------
\* Claims about the output file of the List Rewriter

\* C11: exportCleanedList writes the cleaned list to a path that differs from
\* the path of the input file, whatever the name of the input file, and the
\* input file still holds the lines that were read from it
C11_InputNeverOverwritten ==
    exportStep = "done" =>
        /\ outputFile # inputFile
        /\ files[inputFile] = Join(inputLines, <<"\n">>)

-----------------------------------------------------------------------------
\* Claims about the utility functions

\* C12: getBaseDomain is idempotent: applied to the value it returned for a
\* valid domain, it returns that value again, whatever the suffix table holds
C12_GetBaseDomainIdempotent ==
    utilIn.fn = "getBaseDomain" /\ Len(utilOut) = 2 => utilOut[2] = utilOut[1]

\* the string ends in the ellipsis
EndsInEllipsis(s) == Len(s) >= 3 /\ SubSeq(s, Len(s) - 2, Len(s)) = <<".", ".", ".">>

\* C18: truncateError returns a message that is no longer than the cap
\* unchanged; a longer one it returns as a string that ends in '...' and is,
\* the ellipsis included, no longer than the cap, for every positive cap; a
\* message of 200 characters with the cap 120 comes back as exactly 120
\* characters ending in '...'
C18_TruncatedWithinCap ==
    utilIn.fn = "truncateError" /\ utilOut # <<>> /\ utilIn.message # <<>> =>
        LET message == utilIn.message
            cap == utilIn.maxLength
            returned == utilOut[1]
        IN  /\ Len(message) <= cap => returned = message
            /\ Len(message) > cap => EndsInEllipsis(returned) /\ Len(returned) <= cap
            /\ Len(message) = 200 /\ cap = 120 => Len(returned) = 120

-----------------------------------------------------------------------------
\* Claims about the Rule Parser

\* the characters of a lowercase token
LowerToken(d) ==
    d # <<>> /\ \A k \in DOMAIN d : d[k] \in Range(LowerChars) \cup Range(DigitChars) \cup {".", "-"}

\* C13: every element of the sequence parseDomainsFromFile returns, in rule
\* mode and in simple-list mode, is a lowercase token matching [a-z0-9.-]+,
\* so two spellings of a host that differ in letter case are one element
C13_ParsedDomainsLowercase ==
    parseStep = "parsed" =>
        /\ \A k \in DOMAIN domains : LowerToken(domains[k])
        /\ \A i, j \in DOMAIN domains :
              ToLowerCase(domains[i]) = ToLowerCase(domains[j]) => i = j

\* the token ends in .onion, whatever the case of its letters
OnionToken(d) ==
    Len(d) >= 6 /\ ToLowerCase(SubSeq(d, Len(d) - 5, Len(d))) = <<".","o","n","i","o","n">>

\* C14: extractDomains returns no token that contains '*' or ':' or ends in
\* '.onion' (compared case-insensitively): in rule mode the Set never takes one
C14_NoWildcardPortOnion ==
    ~SIMPLE_DOMAINS /\ parseStep = "lines" =>
        \A k \in DOMAIN domains :
            /\ \A i \in DOMAIN domains[k] : domains[k][i] \notin {"*", ":"}
            /\ ~OnionToken(domains[k])

\* lines with an .onion host and with wildcard, negated and port entries have
\* been parsed in rule mode
C14_Witness ==
    /\ ~SIMPLE_DOMAINS /\ parseStep = "lines" /\ lineIndex = 3
    /\ lines = <<ruleLines.onionAnchor, ruleLines.paramMixed>>
    /\ domains = <<dom.Y>>

\* the step of parseDomainsFromFile that hands a line to extractDomains
RuleLineParsed == ~SIMPLE_DOMAINS /\ parseStep = "lines" /\ lineIndex' = lineIndex + 1

\* what a grammar finds on a line
CosmeticGrammar(line) ==
    IF cosmeticMatch(line) > 0
    THEN prefixDomains(SubSeq(line, 1, cosmeticMatch(line))) ELSE <<>>

FallbackGrammar(line) ==
    IF uBlockMatch(line) > 0 THEN prefixDomains(SubSeq(line, 1, uBlockMatch(line))) ELSE <<>>

\* the domains of the first grammar that yields one, for a line that is not a
\* comment
FirstYielding(line, grammars) ==
    LET yielding == {k \in DOMAIN grammars : grammars[k] # <<>>}
    IN  IF line = <<>> \/ line[1] \in {"!", "["} \/ yielding = {} THEN <<>>
        ELSE grammars[CHOOSE k \in yielding : \A i \in yielding : k <= i]

\* C15 as stated: the four grammars (cosmetic prefix, domain= parameter,
\* ||host anchor, uBlock fallback) are tried in this order and only the domains
\* of the first one that yields a valid domain are returned
C15_FourGrammarsInOrder ==
    [][RuleLineParsed =>
         LET line == Trim(lines[lineIndex])
         IN  domains' = addAll(domains,
                 FirstYielding(line, <<CosmeticGrammar(line), paramDomains(line),
                                       anchorDomains(line), FallbackGrammar(line)>>))]_vars

\* C15: extractDomains tries the cosmetic prefix, then the network rule (the
\* domain= entries and the ||host anchor taken together), then the uBlock
\* fallback, and returns only the domains of the first that yields a valid one
C15_GrammarsInOrder ==
    [][RuleLineParsed =>
         LET line == Trim(lines[lineIndex])
         IN  domains' = addAll(domains,
                 FirstYielding(line, <<CosmeticGrammar(line),
                                       paramDomains(line) \o anchorDomains(line),
                                       FallbackGrammar(line)>>))]_vars

\* a line whose cosmetic prefix yields a domain and that also holds a ||host
\* anchor has been parsed, and a line that only the fallback grammar reads
C15_Witness ==
    /\ ~SIMPLE_DOMAINS /\ parseStep = "lines" /\ lineIndex = 3
    /\ lines = <<ruleLines.cosmeticWithAnchor, ruleLines.fallback>>
    /\ domains = <<dom.A, dom.Y>>

\* the valid host after ||, and the valid entries of domain= that are neither
\* negated nor wildcards
ValidAnchor(line) ==
    LET host == networkMatch(line)
    IN  IF host # <<>> /\ isValidDomain(host) THEN {host} ELSE {}

ValidEntries(line) == Range(paramDomains(line))

\* C16: for a network rule line with a ||host anchor and a domain= parameter,
\* extractDomains returns the valid anchor together with every valid entry of
\* domain= that is neither negated nor a wildcard; the line
\* ||ads.example.net^$script,domain=site1.com|site2.com yields exactly
\* ads.example.net, site1.com and site2.com
C16_AnchorAndParameter ==
    /\ ~SIMPLE_DOMAINS /\ parseStep = "lines" /\ Len(lines) = 1 /\ lineIndex = 2 =>
        LET line == Trim(lines[1])
        IN  /\ /\ CosmeticGrammar(line) = <<>>
               /\ Includes(line, str.bars) /\ Includes(line, str.domainEq)
               => Range(domains) = ValidAnchor(line) \cup ValidEntries(line)
            /\ lines[1] = ruleLines.scenario =>
                   Range(domains) =
                       { <<"a","d","s",".","e","x","a","m","p","l","e",".","n","e","t">>,
                         <<"s","i","t","e","1",".","c","o","m">>,
                         <<"s","i","t","e","2",".","c","o","m">> }

\* the scenario line has been parsed in rule mode
C16_Witness ==
    /\ ~SIMPLE_DOMAINS /\ parseStep = "lines" /\ lineIndex = 2
    /\ lines = <<ruleLines.scenario>>
    /\ Len(domains) = 3

\* C17: expandDomainsWithWww returns one task per input domain, in input
\* order, whose first variant is the domain itself; the task has the variants
\* [domain, 'www.' + domain] exactly when www-expansion is enabled, the
\* domain does not start with 'www.' and it has exactly one dot, and the
\* single variant [domain] otherwise
C17_OneTaskPerDomain ==
    parseStep = "expanded" =>
        /\ Len(domainObjects) = Len(domains)
        /\ \A k \in DOMAIN domains :
              LET d == domains[k]
                  dots == Cardinality({i \in DOMAIN d : d[i] = "."})
                  twoVariants == ADD_WWW /\ SubSeq(d, 1, 4) # <<"w","w","w",".">> /\ dots = 1
              IN  /\ domainObjects[k].original = d
                  /\ domainObjects[k].variants[1] = d
                  /\ domainObjects[k].variants =
                         IF twoVariants THEN <<d, <<"w","w","w",".">> \o d>> ELSE <<d>>

\* with www-expansion enabled, the tasks of a bare domain, of a domain with a
\* subdomain and of a domain that starts with www. have been made
C17_Witness ==
    /\ parseStep = "expanded" /\ ADD_WWW
    /\ \E k \in DOMAIN domainObjects : Len(domainObjects[k].variants) = 2
    /\ \E k \in DOMAIN domainObjects :
          /\ Len(domainObjects[k].variants) = 1
          /\ StartsWith(domainObjects[k].original, str.www)
    /\ Len(domains) >= 2

-----------------------------------------------------------------------------
\* Claims about the DNS verification

\* dig finds no A record for the domain, nor for its www counterpart
NoARecord(domain) ==
    \A host \in DOMAIN dnsAnswers :
        host \in {domain, <<"w","w","w",".">> \o domain} => ~dnsAnswers[host]

\* C19: with --check-dig-always the dead list that is reported holds only
\* domains for which the lookup found no A record, whatever the reasons of the
\* dead records (HTTP status or connection error), and the run goes on to the
\* summary and the reports
C19_OnlyDomainsWithoutRecord ==
    CHECK_DIG_ALWAYS =>
        /\ mainStep # "threw"
        /\ mainStep \in {"summary", "reported"} =>
              \A k \in DOMAIN deadDomains : NoARecord(deadDomains[k].domain)

-----------------------------------------------------------------------------
\* Claims about the www variant

\* the task of a bare domain under --add-www
TwoVariants(t) ==
    /\ ADD_WWW
    /\ domainObjects[t].variants =
           <<domainObjects[t].original, <<"w","w","w",".">> \o domainObjects[t].original>>

\* the attempt ended on a live response from the host that was asked, with or
\* without www.
Works(t) ==
    /\ Responded(t)
    /\ att[t].statusCode \in 200..399
    /\ att[t].finalUrl \in {TargetUrl(AttVariant(t), "same"), TargetUrl(AttVariant(t), "www")}

-----------------------------------------------------------------------------
\* Claims about the lines the List Rewriter keeps

\* the entries of the domain= parameter of a line
ParameterEntries(line) ==
    IF domainMatch(line) = 0 THEN {}
    ELSE { ToLowerCase(StripLeading(Trim(e), {".", "~"})) :
             e \in Range(Split(domainParam(line), "|")) }

\* the line has a domain= parameter and every entry of it is to be removed
ParameterEmptied(line, removal) ==
    /\ ParameterEntries(line) # {}
    /\ ParameterEntries(line) \subseteq removal

\* the line has a ||host anchor whose host is not to be removed
LiveAnchor(line, removal) ==
    /\ networkMatch(line) # <<>>
    /\ ToLowerCase(networkMatch(line)) \notin removal

\* the loop of exportCleanedList goes through one line
LineProcessed == exportStep = "lines" /\ lineNo' = lineNo + 1

\* C21: a line whose domain= parameter is emptied by the pruning and whose
\* ||host anchor is alive is kept, and the line that is kept no longer holds a
\* removed domain in its domain= parameter
C21_EmptiedParameterDropped ==
    [][LineProcessed
          /\ ParameterEmptied(inputLines[lineNo], domainsToRemove)
          /\ LiveAnchor(inputLines[lineNo], domainsToRemove)
       => /\ Len(outputLines') = Len(outputLines) + 1
          /\ ParameterEntries(outputLines'[Len(outputLines')]) \cap domainsToRemove = {}
      ]_vars

-----------------------------------------------------------------------------
\* Claims about the sweep after a batch

\* the pages opened by the tasks of the batches that are finished
PagesOfFinishedBatches == {p \in pages : p.task <= batchStart}

\* C22: once the sweep after a batch is over, while the next batch is started
\* and while it runs, no page opened by a task of a finished batch is open
C22_SweepClosesEveryPage ==
    phase \in {"loop", "await"} => PagesOfFinishedBatches = {}

-----------------------------------------------------------------------------
\* Claims about the errors of an attempt

\* the error text, capped at the default length of truncateError
Capped(message) ==
    IF Len(message) <= 120 THEN message
    ELSE SubSeq(message, 1, 117) \o <<".", ".", ".">>

\* the Dead record of a task whose last attempt raised the message
DeadOnError(t, message) ==
    [type |-> "dead",
     data |-> [domain |-> domainObjects[t].original, reason |-> Capped(message)]]

\* C23: an attempt that ended on a connection-class error that is not
\* certificate-related goes on to the next variant when one remains, and on
\* the last variant the task is Dead with the capped error text as its reason
C23_ConnectionErrorDeadOnLast ==
    \A t \in Tasks :
        (Raised(t) /\ ConnectionClass(att[t].message)) =>
            /\ ~AttIsLast(t) => Taken(t) = Continue
            /\ AttIsLast(t) => Taken(t) = Return(DeadOnError(t, att[t].message))

\* the first variant could not be resolved, the www variant was attempted and
\* could not be resolved either, and the task is Dead on that error
C23_Witness ==
    \E t \in Tasks :
        /\ Raised(t) /\ pc[t] = "done" /\ LastOf(t) = 2 /\ AttIsLast(t)
        /\ att[t].message = errorMessages.nameNotResolved
        /\ ret[t] = DeadOnError(t, errorMessages.nameNotResolved)

-----------------------------------------------------------------------------
\* Claims about the two similarity tests

\* C26: with similarity-ignoring enabled and the built-in fallback sets in
\* use, the classifier's test and the Rewriter's test give the same answer on
\* the hosts of a redirect
C26_SimilarityTestsAgree ==
    utilIn.fn = "isSimilarDomain" /\ Len(utilOut) = 2 => utilOut[1] = utilOut[2]

-----------------------------------------------------------------------------
\* Claims about the final check of the List Rewriter

\* the lines the loop of exportCleanedList has gone through
LinesDone == IF exportStep = "off" THEN {} ELSE {inputLines[k] : k \in 1..(lineNo - 1)}

\* C24: on every line the loop has gone through, the extraction of the final
\* check yields the set of the domains that the Rule Parser extracts from it
C24_SameExtraction ==
    \A line \in LinesDone : extractDomainsFromLine(line) = Range(extractDomains(line))

\* a comment, a header or a blank line
PassThrough(line) ==
    \/ \A k \in DOMAIN line : line[k] \in {" ", "\t"}
    \/ \E k \in DOMAIN line :
          /\ line[k] \in {"!", "["}
          /\ \A i \in 1..(k - 1) : line[i] \in {" ", "\t"}

\* the domains of a rule line, by the extraction of the Rewriter and by that
\* of the Rule Parser
DomainsOf(line) ==
    extractDomainsFromLine(line) \cup Range(extractDomains(line)) \cup ParameterEntries(line)

\* C25: a comment or blank line, and a rule line none of whose domains is in
\* the removal set, goes to the output as it is, in its turn, and is not
\* counted as modified
C25_UntouchedLinesVerbatim ==
    [][LineProcessed
          /\ \/ PassThrough(inputLines[lineNo])
             \/ DomainsOf(inputLines[lineNo]) \cap domainsToRemove = {}
       => /\ outputLines' = Append(outputLines, inputLines[lineNo])
          /\ modifiedCount' = modifiedCount
      ]_vars

\* C27: every line the loop goes through is counted once, as removed or as
\* kept, and a line that is counted as modified is a line that is kept
C27_ModifiedLinesAreKept ==
    [][LineProcessed
       => /\ (removedCount' - removedCount) + (Len(outputLines') - Len(outputLines)) = 1
          /\ removedCount' + Len(outputLines') = lineNo
          /\ modifiedCount' > modifiedCount => Len(outputLines') = Len(outputLines) + 1
      ]_vars

-----------------------------------------------------------------------------
\* Claims about the force-close timer

\* C28: the force-close timer of an attempt is armed only while the attempt
\* awaits its fetch, so it is cancelled on every path out of the attempt and
\* its callback cannot act on an attempt that has ended; and page.close() is
\* called on a page by the callback or by the attempt, never by both: a call
\* is the first one on its page, or it is the retry that the catch block makes
\* when its own call was rejected
C28_TimerCancelledCloseOnce ==
    /\ [](\A t \in Tasks : forceCloseTimer[t] => pc[t] = "goto")
    /\ [][\A t \in Tasks :
             closeCalls'[t] > closeCalls[t] =>
                 \/ closeCalls[t] = 0
                 \/ pc[t] = "closingCatch" /\ closeFailures' > closeFailures
         ]_vars

\* the callback closed the page of an attempt, the fetch of the attempt then
\* raised, and the attempt ended without another call of page.close()
C28_Witness ==
    \E t \in Tasks :
        /\ phase = "await" /\ pc[t] = "done" /\ forceCloses = 1
        /\ pageClosed[t] /\ closeCalls[t] = 1 /\ ~forceCloseTimer[t]
        /\ PageOf(t) = {} /\ att[t].kind = "error"

\* an attempt on a variant that is not the last was ended by an error that is
\* not classified as dead
OtherErrorBeforeLast(t) ==
    Raised(t) /\ ~ConnectionClass(att[t].message) /\ ~AttIsLast(t)

AllVariantsFailed(t) ==
    [type |-> "dead",
     data |-> [domain |-> domainObjects[t].original, statusCode |-> -1,
               reason |-> <<"A","l","l"," ","v","a","r","i","a","n","t","s"," ",
                            "f","a","i","l","e","d">>]]

\* C30: a task resolves from inside the variant loop: no attempt on the last
\* variant goes round the loop again, and no task resolves to the record
\* 'All variants failed' that follows the loop
C30_FallbackUnreachable ==
    \A t \in Tasks :
        /\ (Ended(t) /\ AttIsLast(t) /\ pc[t] \in {"closing", "closingCatch", "done"}) =>
              Taken(t).exit = "return"
        /\ ret[t] # AllVariantsFailed(t)

\* the last variant gave no main response at all: the task is Dead with a
\* null status, by the return inside the loop
C30_Witness ==
    \E t \in Tasks :
        /\ Responded(t) /\ pc[t] = "done" /\ AttIsLast(t)
        /\ att[t].statusCode = NoStatus
        /\ ret[t].type = "dead" /\ ret[t].data.statusCode = NoStatus
        /\ ret[t] # AllVariantsFailed(t)

====
